---- MODULE Spec2Model ----
(***************************************************************************)
(* Model of scripts/scrape-official.js: the KPI hydration pipeline.        *)
(*                                                                         *)
(*   main -> buildCompany -> hydrateSeries (discoverEntries, explicit      *)
(*   entries, autoFillSeries) -> fetchDocument / DOCUMENT_CACHE ->         *)
(*   extractValueFromText / ocrPdfBuffer -> series assignment -> output.   *)
(*                                                                         *)
(* The program is single threaded: every await is a suspension point but   *)
(* nothing else runs meanwhile, so one loop iteration is one action.       *)
(***************************************************************************)
EXTENDS Integers, Sequences, FiniteSets, TLC

(***************************************************************************)
(* Values.  A JS `number | null` is the empty tuple (null) or a one-tuple. *)
(***************************************************************************)
Null == <<>>
Num(n) == <<n>>

\* "" stands for a JS falsy string / a period that could not be inferred.
NoPeriod == ""

PERIODS_Q ==
  << "2021Q1", "2021Q2", "2021Q3", "2021Q4",
     "2022Q1", "2022Q2", "2022Q3", "2022Q4",
     "2023Q1", "2023Q2", "2023Q3", "2023Q4",
     "2024Q1", "2024Q2", "2024Q3", "2024Q4",
     "2025Q1", "2025Q2", "2025Q3", "2025Q4" >>

PeriodSet == { PERIODS_Q[i] : i \in 1..Len(PERIODS_Q) }

(***************************************************************************)
(* Bounds of the model.                                                    *)
(***************************************************************************)
\* number of (company, KPI) pairs of the dataset template that are modelled
NumKpis == 2
\* longest list of explicit entries in a configuration block
MaxEntries == 2

(***************************************************************************)
(* The outside world: URLs and what they serve.  A URL is a record of the  *)
(* parts the code looks at: its extension (isPdf), the period token in it  *)
(* (inferPeriodFromString) and the number of report / KPI keywords in it   *)
(* (scoreUrl).                                                             *)
(***************************************************************************)
Url(path, ext, period, keywords) ==
  [path |-> path, ext |-> ext, period |-> period, keywords |-> keywords]

UrlReport == Url("ir/bctc-2021q1",      ".pdf",  "2021Q1", 2)
UrlScan   == Url("ir/bao-cao-scan",     ".pdf",  NoPeriod, 2)
UrlScanQ2 == Url("ir/bctc-2021q2-scan", ".pdf",  "2021Q2", 2)
UrlNews   == Url("ir/store-news",       ".html", NoPeriod, 2)
\* a missing `url` property of a configured entry
NoUrl     == Url("", "", NoPeriod, 0)

\* Anchor texts of links: the words, the period token they hold and the
\* number of report / KPI keywords among the words.
Anchor(words, period, keywords) ==
  [words |-> words, period |-> period, keywords |-> keywords]

NoAnchor == Anchor("", NoPeriod, 0)
AnchorQ4 == Anchor("bao cao Q4 2025", "2025Q4", 1)

URLS == { UrlReport, UrlScan, UrlScanQ2, UrlNews }

\* A folded text is a record of what the code reads in it: whether it is the
\* empty string, the first period marker it carries (inferPeriodFromText),
\* its year tokens and quarter markers with their character positions, the
\* regex matches of each pattern in text order, and the value that follows
\* a row label on one line.
\*   year token    : the four digits of a year starting at `at`
\*   quarter marker: `word` ("q" or "quy"), `gap` white-space characters and
\*                   a numeral, a sequence of characters such as
\*                   <<"2">> or <<"i", "i", "i">>, starting at `at`
\*   match         : the pattern that matched, match.index, the number
\*                   normalizeNumber(pickNumberToken(match[1])) gives (Null
\*                   if it is no number) and the unit word of match[2]
YearToken(at, year) == [at |-> at, year |-> year]
Marker(at, word, gap, numeral) == [at |-> at, word |-> word, gap |-> gap, numeral |-> numeral]
Match(pattern, index, raw, unit) == [pattern |-> pattern, index |-> index, raw |-> raw, unit |-> unit]

FineText(mark, years, quarters, matches, row) ==
  [empty |-> FALSE, mark |-> mark, years |-> years, quarters |-> quarters,
   matches |-> matches, row |-> row]

EmptyText ==
  [empty |-> TRUE, mark |-> NoPeriod, years |-> {}, quarters |-> {},
   matches |-> <<>>, row |-> <<>>]

\* Pattern names: the pattern of an explicit or discovered entry, the
\* primary and fallback banks of KPI_PATTERNS, and a string that is no
\* valid regular expression (new RegExp throws a SyntaxError on it).
EntryPattern == "entry"
PrimaryPattern == "primary"
FallbackPattern == "fallback"
BadPattern == "("

\* `period.slice(0, 4)` and `period.slice(5)` of a period of PERIODS_Q
PeriodIndex(period) == CHOOSE i \in 1..Len(PERIODS_Q) : PERIODS_Q[i] = period
yearOf(period) == 2021 + (PeriodIndex(period) - 1) \div 4
quarterOf(period) == << "1", "2", "3", "4" >>[((PeriodIndex(period) - 1) % 4) + 1]

\* A document with one figure: every pattern of `pats` matches twice, first
\* a number too small for every KPI (a note or page number beside the
\* label) and then, at character DocIndex, the figure, each followed by the
\* unit "ty"; the year and the quarter of `mark` stand shortly before.
\* `row` holds the numbers that follow the row label on its line.
DocIndex == 200
NoteNumber == Num(20)
Text(empty, mark, pats, val, row) ==
  IF empty THEN EmptyText
  ELSE
    LET Matching(name) == name \in pats
        names == SelectSeq(<< EntryPattern, PrimaryPattern, FallbackPattern >>, Matching)
    IN  FineText(mark,
                 IF mark = NoPeriod THEN {} ELSE { YearToken(DocIndex - 50, yearOf(mark)) },
                 IF mark = NoPeriod THEN {}
                 ELSE { Marker(DocIndex - 40, "q", 0, << quarterOf(mark) >>) },
                 [n \in 1..(2 * Len(names)) |->
                    IF n % 2 = 1
                    THEN Match(names[(n + 1) \div 2], DocIndex - 20, NoteNumber, "ty")
                    ELSE Match(names[n \div 2], DocIndex, val, "ty")],
                 row)

\* The text layer each URL serves (PDFParse.getText / stripped HTML).
WebText(url) ==
  CASE url = UrlReport -> Text(FALSE, "2021Q1", {EntryPattern, PrimaryPattern}, Num(100), <<>>)
    [] url = UrlScan   -> EmptyText
    [] url = UrlScanQ2 -> EmptyText
    [] url = UrlNews   -> Text(FALSE, NoPeriod, {EntryPattern, PrimaryPattern, FallbackPattern},
                               Num(200), <<>>)
    [] OTHER           -> EmptyText

\* What OCR reads from the rendered pages of each PDF.
WebOcrText(url) ==
  CASE url = UrlReport -> Text(FALSE, "2021Q1", {EntryPattern, PrimaryPattern}, Num(100), <<>>)
    [] url = UrlScan   -> Text(FALSE, "2025Q4", {FallbackPattern}, Num(200), <<>>)
    [] url = UrlScanQ2 -> Text(FALSE, NoPeriod, {}, Null, << NoteNumber, Num(100) >>)
    [] OTHER           -> EmptyText

(***************************************************************************)
(* Pure helpers.                                                           *)
(***************************************************************************)
isPdf(url) == url.ext = ".pdf"

\* inferPeriodFromString on a URL or an anchor text: the period token the
\* string holds, "" when it holds none.
inferPeriodFromString(input) == input.period

\* inferPeriodFromText: the first period marker of the folded text.
inferPeriodFromText(folded) == folded.mark

\* quarterToRoman
quarterToRoman(q) ==
  CASE q = "1" -> << "i" >>
    [] q = "2" -> << "i", "i" >>
    [] q = "3" -> << "i", "i", "i" >>
    [] q = "4" -> << "i", "v" >>
    [] OTHER   -> <<>>

\* `text.slice(Math.max(0, index - 180), index + 260)`: the window holds the
\* characters from windowStart up to, not including, windowEnd.
WindowBefore == 180
WindowAfter == 260
windowStart(index) == IF index - WindowBefore > 0 THEN index - WindowBefore ELSE 0
windowEnd(index) == index + WindowAfter

IsPrefix(a, b) == Len(a) <= Len(b) /\ SubSeq(b, 1, Len(a)) = a

\* One alternative of quarterRegex, `word\s*numeral`, tested on the window:
\* it matches at a marker with that word whose numeral begins with the
\* alternative's numeral (the regex is not anchored at a word end), if the
\* matched characters lie inside the window.
alternativeMatches(word, numeral, marker, index) ==
  /\ marker.word = word
  /\ IsPrefix(numeral, marker.numeral)
  /\ marker.at >= windowStart(index)
  /\ marker.at + Len(IF word = "q" THEN << "q" >> ELSE << "q", "u", "y" >>)
        + marker.gap + Len(numeral) <= windowEnd(index)

\* `(q\s*${q}|quy\s*${q}|quy\s*${roman})` with flag i, on the window
quarterRegexTest(text, index, q) ==
  \E marker \in text.quarters :
    \/ alternativeMatches("q", << q >>, marker, index)
    \/ alternativeMatches("quy", << q >>, marker, index)
    \/ alternativeMatches("quy", quarterToRoman(q), marker, index)

\* `new RegExp(year).test(window)`
yearRegexTest(text, index, year) ==
  \E token \in text.years :
    /\ token.year = year
    /\ token.at >= windowStart(index)
    /\ token.at + 4 <= windowEnd(index)

\* hasPeriodNearMatch: no period asked for passes; otherwise the window
\* around the match must hold the quarter and the year.
hasPeriodNearMatch(text, index, period) ==
  IF period = NoPeriod THEN TRUE
  ELSE quarterRegexTest(text, index, quarterOf(period))
         /\ yearRegexTest(text, index, yearOf(period))

\* normalizeByUnit for the unit kinds count and currency, on a number that
\* is not null.  The unit word stands for what `token.includes` and
\* `ctx.includes` find (match[0] holds match[2]); the quotients are exact
\* for the multiples of 1000 the model uses.
normalizeByUnit(value, unitToken, unitKind) ==
  IF value = Null THEN Null
  ELSE IF unitKind = "currency"
  THEN IF unitToken \in { "billion", "ty" } THEN value
       ELSE IF unitToken \in { "million", "trieu" } THEN Num(value[1] \div 1000)
       ELSE IF unitToken = "usd" THEN Null
       ELSE IF value[1] >= 1000000 \/ value[1] <= -1000000 THEN Num(value[1] \div 1000000000)
       ELSE IF value[1] >= 1000 \/ value[1] <= -1000 THEN Num(value[1] \div 1000)
       ELSE value
  ELSE value

\* the bounds of the KPI are not looked at
acceptMatch_NoBounds(text, match, meta, period, strictPeriod) ==
  LET normalized == normalizeByUnit(match.raw, match.unit, meta.unitKind)
  IN  IF normalized = Null THEN Null
      ELSE IF strictPeriod /\ ~hasPeriodNearMatch(text, match.index, period) THEN Null
      ELSE normalized

\* Lines 544-551: the filters of one match; Null if one of them says
\* `continue`, the normalized value otherwise.
acceptMatch(text, match, meta, period, strictPeriod) ==
  LET normalized == normalizeByUnit(match.raw, match.unit, meta.unitKind)
  IN  IF normalized = Null THEN Null
      ELSE IF meta.minValue # Null /\ normalized[1] < meta.minValue[1] THEN Null
      ELSE IF meta.maxValue # Null /\ normalized[1] > meta.maxValue[1] THEN Null
      ELSE IF strictPeriod /\ ~hasPeriodNearMatch(text, match.index, period) THEN Null
      ELSE normalized

\* the regex.exec loop of one pattern stops at the first match, whatever
\* the filters say
execLoop_FirstOnly(text, found, meta, period, strictPeriod) ==
  IF found = <<>> THEN Null
  ELSE acceptMatch(text, Head(found), meta, period, strictPeriod)

\* `while ((match = regex.exec(foldedText)) !== null)`: the matches of one
\* pattern in text order, up to the first that passes the filters
RECURSIVE execLoop(_, _, _, _, _)
execLoop(text, found, meta, period, strictPeriod) ==
  IF found = <<>> THEN Null
  ELSE LET v == acceptMatch(text, Head(found), meta, period, strictPeriod)
       IN  IF v # Null THEN v
           ELSE execLoop(text, Tail(found), meta, period, strictPeriod)

\* the matches of one pattern, in text order
matchesOf(text, pattern) ==
  LET Of(match) == match.pattern = pattern IN SelectSeq(text.matches, Of)

\* extractValueFromText over valid patterns: patterns in bank order, for
\* each its matches in text order; the first match that passes the filters
\* gives the value.  `meta` carries unitKind, minValue and maxValue.
RECURSIVE extractValueFromText(_, _, _, _, _)
extractValueFromText(folded, patterns, meta, period, strictPeriod) ==
  IF patterns = <<>> THEN Null
  ELSE LET v == execLoop(folded, matchesOf(folded, Head(patterns)), meta, period, strictPeriod)
       IN  IF v # Null THEN v
           ELSE extractValueFromText(folded, Tail(patterns), meta, period, strictPeriod)

\* new RegExp(pattern) throws for an invalid pattern; the bank is walked in
\* order, so the throw happens unless an earlier pattern already returned.
RECURSIVE extractThrows(_, _, _, _, _)
extractThrows(folded, patterns, meta, period, strictPeriod) ==
  IF patterns = <<>> THEN FALSE
  ELSE IF Head(patterns) = BadPattern THEN TRUE
  ELSE IF extractValueFromText(folded, <<Head(patterns)>>, meta, period, strictPeriod) # Null
       THEN FALSE
       ELSE extractThrows(folded, Tail(patterns), meta, period, strictPeriod)

\* Lines 575-582: the numbers after the row label, in line order; the first
\* that normalizeByUnit and the bounds accept.  No unit word is passed.
RECURSIVE firstPlausible(_, _)
firstPlausible(tokens, meta) ==
  IF tokens = <<>> THEN Null
  ELSE LET normalized == normalizeByUnit(Head(tokens), "", meta.unitKind)
       IN  IF normalized = Null THEN firstPlausible(Tail(tokens), meta)
           ELSE IF meta.minValue # Null /\ normalized[1] < meta.minValue[1]
           THEN firstPlausible(Tail(tokens), meta)
           ELSE IF meta.maxValue # Null /\ normalized[1] > meta.maxValue[1]
           THEN firstPlausible(Tail(tokens), meta)
           ELSE normalized

\* extractValueFromLines: the value after a row label, if row patterns exist.
extractValueFromLines(text, meta) ==
  IF text.empty \/ meta.rowPatterns = <<>> THEN Null ELSE firstPlausible(text.row, meta)

\* KPI_PATTERNS of the KPI at position j of the dataset template: every
\* company has one KPI with a single `patterns` bank (as `stores`: a count
\* of at least 50) followed by `rev`, which has primary and fallback banks,
\* takes a currency amount between 100 and 60000 and requires PDF sources.
KPI_PATTERNS(j) ==
  IF j % 2 = 1
  THEN [primaryPatterns |-> << PrimaryPattern >>, fallbackPatterns |-> <<>>,
        rowPatterns |-> << "row" >>, requiresPdf |-> FALSE,
        unitKind |-> "count", minValue |-> Num(50), maxValue |-> Null]
  ELSE [primaryPatterns |-> << PrimaryPattern >>, fallbackPatterns |-> << FallbackPattern >>,
        rowPatterns |-> << "row" >>, requiresPdf |-> TRUE,
        unitKind |-> "currency", minValue |-> Num(100), maxValue |-> Num(60000)]

(***************************************************************************)
(* Configuration (official-sources.json), per KPI block.                   *)
(***************************************************************************)
Entry(period, url, pattern) == [period |-> period, url |-> url, pattern |-> pattern]

EntrySet ==
  { Entry("2021Q1", UrlReport, EntryPattern),
    Entry("2021Q1", UrlNews,   EntryPattern),
    Entry("2021Q1", UrlScan,   EntryPattern),
    Entry("2020Q4", UrlReport, EntryPattern),
    Entry("2025Q4", UrlReport, BadPattern),
    Entry("2025Q4", NoUrl,     EntryPattern) }

SeqsUpTo(S, n) == UNION { [1..m -> S] : m \in 0..n }

EntryLists == SeqsUpTo(EntrySet, MaxEntries)

\* A discover block: listing page, link pattern, value pattern, max.
ListingUrl == "ir/listing"
ArchiveUrl == "ir/archive"
DiscoverCfg(listUrl, linkPattern, valuePattern, max) ==
  [listUrl |-> listUrl, linkPattern |-> linkPattern,
   valuePattern |-> valuePattern, max |-> max]

\* `max = 6` of the destructuring default in discoverEntries
DefaultDiscoverMax == 6

DiscoverLists ==
  { <<>>,
    << DiscoverCfg(ListingUrl, "link", EntryPattern, DefaultDiscoverMax) >> }

\* The links of the listing page that linkPattern matches, in page order,
\* with the period token of the captured group.
ListMatches(listUrl) ==
  IF listUrl = ListingUrl
  THEN << [period |-> "2021Q1", url |-> UrlReport],
          [period |-> "2021Q1", url |-> UrlNews],
          [period |-> "2020Q4", url |-> UrlScan],
          [period |-> "2025Q4", url |-> UrlScan] >>
  ELSE IF listUrl = ArchiveUrl
  THEN << [period |-> "2021Q1", url |-> UrlScan],
          [period |-> "2021Q2", url |-> UrlScanQ2] >>
  ELSE <<>>

\* `auto` block: enabled (default true), ocr, ocrMaxDocs (Null = not a number)
AutoCfg(enabled, ocr, ocrMaxDocs) ==
  [enabled |-> enabled, ocr |-> ocr, ocrMaxDocs |-> ocrMaxDocs]

AutoOff == AutoCfg(FALSE, FALSE, Null)

AutoCfgs ==
  { AutoOff,
    AutoCfg(TRUE, FALSE, Null),
    AutoCfg(TRUE, TRUE, Num(1)) }

KpiCfg(entries, discover, auto) ==
  [entries |-> entries, discover |-> discover, auto |-> auto]

\* A KPI without a block in the file: `rawCfg[kpi.key] || {}`.
DefaultCfg == KpiCfg(<<>>, <<>>, AutoCfg(TRUE, FALSE, Null))

\* The blocks of the KPI whose configuration is varied: every list of
\* explicit entries without auto-search, and every combination of discover
\* and auto settings over a few entry lists.
KpiCfgs ==
  { KpiCfg(es, <<>>, AutoOff) : es \in EntryLists }
  \cup
  { KpiCfg(es, ds, a) :
      es \in { <<>>,
               << Entry("2021Q1", UrlReport, EntryPattern) >>,
               << Entry("2021Q1", UrlScan, EntryPattern) >> },
      ds \in DiscoverLists, a \in AutoCfgs }

\* The blocks of the other KPIs.
SimpleCfgs ==
  { KpiCfg(<<>>, <<>>, AutoOff),
    KpiCfg(<< Entry("2021Q1", UrlReport, EntryPattern) >>, <<>>, AutoOff) }

\* A KPI block with one explicit entry for every period but the first, all
\* on one page, and auto-search left on for what remains.
NearlyFullEntries ==
  [i \in 1..(Len(PERIODS_Q) - 1) |-> Entry(PERIODS_Q[i + 1], UrlNews, EntryPattern)]

NearlyFullCfg == KpiCfg(NearlyFullEntries, <<>>, AutoCfg(TRUE, FALSE, Null))

\* The configurations a run is started with.
RawCfgs ==
  { [j \in 1..NumKpis |-> IF j = r THEN c ELSE s[j]] :
      r \in 1..NumKpis, c \in KpiCfgs, s \in [1..NumKpis -> SimpleCfgs] }
  \cup
  { [j \in 1..NumKpis |-> IF j = 1 THEN NearlyFullCfg ELSE DefaultCfg] }

(***************************************************************************)
(* State.                                                                  *)
(***************************************************************************)
VARIABLES
  pc,             \* position of main: start, hydrate, write, written, exit1
  rawCfg,         \* the parsed configuration file (<<>> before it is read)
  kpis,           \* the KPI objects of the dataset, in hydration order
  k,              \* index of the KPI main is hydrating
  hs,             \* position inside hydrateSeries / autoFillSeries
  ei,             \* index of the next entry of kpi._cfg
  pool,           \* autoFillSeries: raw candidates gathered by the crawl
  xi,             \* autoFillSeries: index of the next candidate to expand
  extra,          \* autoFillSeries: PDF links found by the expansion
  candidates,     \* autoFillSeries: the ranked candidate list
  ci,             \* autoFillSeries: index of the next candidate
  missing,        \* autoFillSeries: the missing set
  ocrRemaining,   \* autoFillSeries: the OCR budget left
  DOCUMENT_CACHE, \* url -> document payload
  attempted,      \* history: URLs fetchDocument has started a download of
  ocrCalls,       \* history: ocrPdfBuffer calls of the current auto-search
  last,           \* history: what the last loop iteration did
  pass            \* history: which call of hydrateSeries each KPI is in (1, 2)

mainVars ==
  << pc, rawCfg, kpis, k, hs, ei, pool, xi, extra, candidates, ci, missing,
     ocrRemaining, DOCUMENT_CACHE, attempted, ocrCalls, last, pass >>

\* One call of ocrPdfBuffer, followed through ocrWithCli or ocrWithJs.
VARIABLES
  ocrPc,          \* position: idle, start, select, cli, js, returned, threw
  ocrOpts,        \* the opts of the call and the machine it runs on
  TESSERACT_BIN,  \* the cached path of the tesseract binary ("": none yet)
  pages,          \* number of pages renderPdfPages returned
  engine,         \* the engine function entered: none, cli, js
  tmpDir,         \* the temporary directory of ocrWithCli: none, exists, removed
  pageNo,         \* ocrWithCli / ocrWithJs: index of the page in work
  angleNo,        \* ocrWithCli: index of the next rotation of the page
  bestText,       \* ocrWithCli: best text of the page so far
  bestScore,      \* ocrWithCli: its score
  pageTexts,      \* `text`: the page texts joined so far, one per page
  scans,          \* history: per page, what tesseract read at each rotation
  worker          \* ocrWithJs: the tesseract.js worker: none, live, terminated

ocrVars ==
  << ocrPc, ocrOpts, TESSERACT_BIN, pages, engine, tmpDir, pageNo, angleNo,
     bestText, bestScore, pageTexts, scans, worker >>

\* The ranking of autoFillSeries applied to one candidate pool.
VARIABLES
  rankPc,         \* position: idle, raw, filtered, ranked
  rankCfg,        \* kpiMeta.requiresPdf and autoCfg.maxDocs of the call
  rawCandidates,  \* the pool the crawl gathered
  filteredPool,   \* the pool after the keyword, PDF and period filters
  ranked          \* the ranked candidate list

rankVars == << rankPc, rankCfg, rawCandidates, filteredPool, ranked >>

\* One call of fetchSitemapUrls.
VARIABLES
  smPc,           \* position: idle, loop, returned
  sitemapWeb,     \* what each sitemap URL serves: its locations, or a failure
  limit,          \* `maxUrls || 2000`
  queue,          \* sitemap URLs waiting to be fetched
  smSeen,         \* `seen`: sitemap URLs taken from the queue
  smOut,          \* `out`: the locations emitted as candidates
  fetches         \* history: the URLs fetchBuffer was called with, in order

smVars == << smPc, sitemapWeb, limit, queue, smSeen, smOut, fetches >>

\* One call of hasPeriodNearMatch or of extractValueFromText.
VARIABLES
  exPc,           \* position: idle, near, extract, done
  exText,         \* the folded text of the call
  exArgs,         \* the other arguments of the call
  exResult        \* the function called and what it returned

exVars == << exPc, exText, exArgs, exResult >>

\* One call of a pure function of the number parser, of discovery or of
\* the dataset validation.
VARIABLES
  fnPc,           \* position: idle, the name of the function to call, done
  fnArgs,         \* the arguments of the call
  fnResult        \* what the call returned

fnVars == << fnPc, fnArgs, fnResult >>

subVars == << ocrVars, rankVars, smVars, exVars, fnVars >>

\* what a step of one procedure leaves alone
besideOcr == << mainVars, rankVars, smVars, exVars, fnVars >>
besideRank == << mainVars, ocrVars, smVars, exVars, fnVars >>
besideSitemap == << mainVars, ocrVars, rankVars, exVars, fnVars >>
besideExtract == << mainVars, ocrVars, rankVars, smVars, fnVars >>
besideFn == << mainVars, ocrVars, rankVars, smVars, exVars >>

vars == << mainVars, subVars >>

autoVars == << pool, xi, extra, candidates, ci, missing, ocrRemaining, ocrCalls >>

Last(op, url, fetch, ocr, caught) ==
  [op |-> op, url |-> url, fetch |-> fetch, ocr |-> ocr, caught |-> caught]

LastNone == Last("none", NoUrl, "none", "none", FALSE)

(***************************************************************************)
(* Series.                                                                 *)
(***************************************************************************)
blankSeries ==
  [i \in 1..Len(PERIODS_Q) |-> [period |-> PERIODS_Q[i], value |-> Null]]

\* buildCompany, over the flattened list of (company, KPI) pairs.
buildCompany(cfg) ==
  [j \in 1..NumKpis |->
     [series    |-> blankSeries,
      _cfg      |-> cfg[j].entries,
      _discover |-> cfg[j].discover,
      _auto     |-> cfg[j].auto]]

\* `kpi.series.find((x) => x.period === period)`: index of the first point
\* of that period, 0 when there is none.
findTarget(series, period) ==
  LET idx == { i \in DOMAIN series : series[i].period = period }
  IN  IF idx = {} THEN 0 ELSE CHOOSE i \in idx : \A j \in idx : i <= j

\* the value is pushed as a new point instead of written to the found one
assignValue_Push(series, period, v) ==
  LET t == findTarget(series, period)
  IN  IF t = 0 THEN series ELSE Append(series, [period |-> period, value |-> v])

\* `if (target) target.value = v`
assignValue(series, period, v) ==
  LET t == findTarget(series, period)
  IN  IF t = 0 THEN series ELSE [series EXCEPT ![t].value = v]

\* `kpi.series.filter((p) => p.value === null).map((p) => p.period)`
missingPeriods(series) ==
  { series[i].period : i \in { j \in DOMAIN series : series[j].value = Null } }

(***************************************************************************)
(* fetchDocument and the document cache.                                   *)
(***************************************************************************)
EmptyCache == [u \in {} |-> EmptyText]

FetchOutcomes == { "ok", "neterr", "parseerr" }

\* what the network and the PDF parser can do for this URL
OutcomesFor(url) == IF isPdf(url) THEN FetchOutcomes ELSE { "ok", "neterr" }

Payload(url) == [folded |-> WebText(url), buffer |-> url, isPdf |-> isPdf(url)]

NoDoc == [folded |-> EmptyText, buffer |-> NoUrl, isPdf |-> FALSE]

\* the cache is not consulted
fetchDocument_NoLookup(cache, url, outcome) ==
  IF outcome # "ok"
  THEN [threw |-> TRUE, doc |-> NoDoc, cache |-> cache, fetch |-> outcome]
  ELSE [threw |-> FALSE, doc |-> Payload(url),
        cache |-> (url :> Payload(url)) @@ cache, fetch |-> "ok"]

\* the cache entry is set before the download and extraction are through
fetchDocument_StoreFirst(cache, url, outcome) ==
  IF url \in DOMAIN cache
  THEN [threw |-> FALSE, doc |-> cache[url], cache |-> cache, fetch |-> "hit"]
  ELSE IF outcome # "ok"
  THEN [threw |-> TRUE, doc |-> NoDoc, cache |-> (url :> NoDoc) @@ cache, fetch |-> outcome]
  ELSE [threw |-> FALSE, doc |-> Payload(url),
        cache |-> (url :> Payload(url)) @@ cache, fetch |-> "ok"]

\* fetchDocument(url): cache hit, or download + text extraction + store.
\* `fetch` records what happened: hit, ok, neterr (fetchBuffer threw),
\* parseerr (PDFParse threw); threw says the error reached the caller.
fetchDocument(cache, url, outcome) ==
  IF url \in DOMAIN cache
  THEN [threw |-> FALSE, doc |-> cache[url], cache |-> cache, fetch |-> "hit"]
  ELSE IF outcome # "ok"
  THEN [threw |-> TRUE, doc |-> NoDoc, cache |-> cache, fetch |-> outcome]
  ELSE [threw |-> FALSE, doc |-> Payload(url),
        cache |-> (url :> Payload(url)) @@ cache, fetch |-> "ok"]

\* did this fetchDocument call start a download
Downloaded(fetch) == fetch \in { "ok", "neterr", "parseerr" }

(***************************************************************************)
(* discoverEntries.                                                        *)
(***************************************************************************)
\* The while loop over the matches of one discover block: entries so far,
\* the periods seen in this block, the matches left.
RECURSIVE discoverMatches(_, _, _, _)
discoverMatches(entries, seen, matches, d) ==
  IF matches = <<>> THEN entries
  ELSE
    LET m     == Head(matches)
        take  == m.period \in PeriodSet /\ m.period \notin seen
        next  == IF take
                 THEN Append(entries, Entry(m.period, m.url, d.valuePattern))
                 ELSE entries
        seen2 == IF take THEN seen \cup { m.period } ELSE seen
    IN  IF Len(next) >= d.max THEN next
        ELSE discoverMatches(next, seen2, Tail(matches), d)

\* discoverEntries(discoverCfg); oks[j] says whether the listing page of
\* block j could be fetched (a failure is caught and the block skipped).
RECURSIVE discoverEntries(_, _, _)
discoverEntries(entries, discoverCfg, oks) ==
  IF discoverCfg = <<>> THEN entries
  ELSE
    LET d == Head(discoverCfg)
        skip == d.listUrl = "" \/ d.linkPattern = "" \/ d.valuePattern = ""
        got == IF skip \/ ~Head(oks) THEN entries
               ELSE discoverMatches(entries, {}, ListMatches(d.listUrl), d)
    IN  discoverEntries(got, Tail(discoverCfg), Tail(oks))

(***************************************************************************)
(* hydrateSeries: guards and the explicit-entry loop body.                 *)
(***************************************************************************)
\* the test for explicit entries is left out
shouldDiscover_Always(kpi) == kpi._discover # <<>>

\* `!kpi._cfg.length && kpi._discover?.length`
shouldDiscover(kpi) == kpi._cfg = <<>> /\ kpi._discover # <<>>

\* `autoEnabled && missing.length`
shouldAutoFill(kpi) == kpi._auto.enabled /\ missingPeriods(kpi.series) # {}

\* a failed entry clears the period it was meant to fill
hydrateEntry_ClearOnFailure(series, cache, entry, outcome, meta) ==
  IF entry.period \notin PeriodSet \/ entry.url = NoUrl \/ entry.pattern = ""
  THEN [series |-> series, cache |-> cache, fetch |-> "none",
        caught |-> FALSE, uncaught |-> FALSE]
  ELSE
    LET r == fetchDocument(cache, entry.url, outcome)
    IN  IF r.threw \/ extractThrows(r.doc.folded, << entry.pattern >>, meta, NoPeriod, TRUE)
        THEN [series |-> assignValue(series, entry.period, Null), cache |-> r.cache,
              fetch |-> r.fetch, caught |-> TRUE, uncaught |-> FALSE]
        ELSE [series |-> assignValue(series, entry.period,
                           extractValueFromText(r.doc.folded, << entry.pattern >>, meta, NoPeriod, TRUE)),
              cache |-> r.cache, fetch |-> r.fetch,
              caught |-> FALSE, uncaught |-> FALSE]

\* One iteration of `for (const entry of kpi._cfg)`.  The result names the
\* new series and cache, what the fetch did, whether an error was caught
\* by the try/catch of the loop body, and whether one escaped it.
hydrateEntry(series, cache, entry, outcome, meta) ==
  IF entry.period \notin PeriodSet \/ entry.url = NoUrl \/ entry.pattern = ""
  THEN [series |-> series, cache |-> cache, fetch |-> "none",
        caught |-> FALSE, uncaught |-> FALSE]
  ELSE
    LET r == fetchDocument(cache, entry.url, outcome)
    IN  IF r.threw
        THEN [series |-> series, cache |-> r.cache, fetch |-> r.fetch,
              caught |-> TRUE, uncaught |-> FALSE]
        ELSE IF extractThrows(r.doc.folded, << entry.pattern >>, meta, NoPeriod, TRUE)
        THEN [series |-> series, cache |-> r.cache, fetch |-> r.fetch,
              caught |-> TRUE, uncaught |-> FALSE]
        ELSE
          LET v == extractValueFromText(r.doc.folded, << entry.pattern >>, meta, NoPeriod, TRUE)
          IN  [series |-> assignValue(series, entry.period, v),
               cache |-> r.cache, fetch |-> r.fetch,
               caught |-> FALSE, uncaught |-> FALSE]

(***************************************************************************)
(* Actions of main and hydrateSeries.                                      *)
(***************************************************************************)
MainInit ==
  /\ pc = "start"
  /\ rawCfg = <<>>
  /\ kpis = <<>>
  /\ k = 0
  /\ hs = "idle"
  /\ ei = 0
  /\ pool = <<>>
  /\ xi = 0
  /\ extra = <<>>
  /\ candidates = <<>>
  /\ ci = 0
  /\ missing = {}
  /\ ocrRemaining = 0
  /\ DOCUMENT_CACHE = EmptyCache
  /\ attempted = {}
  /\ ocrCalls = 0
  /\ last = LastNone
  /\ pass = 1

\* no ocrPdfBuffer call is followed
OcrIdle ==
  /\ ocrPc = "idle"
  /\ ocrOpts = <<>>
  /\ TESSERACT_BIN = ""
  /\ pages = 0
  /\ engine = "none"
  /\ tmpDir = "none"
  /\ pageNo = 0
  /\ angleNo = 0
  /\ bestText = <<>>
  /\ bestScore = -1
  /\ pageTexts = <<>>
  /\ scans = <<>>
  /\ worker = "none"

RankIdle ==
  /\ rankPc = "idle"
  /\ rankCfg = <<>>
  /\ rawCandidates = <<>>
  /\ filteredPool = <<>>
  /\ ranked = <<>>

SitemapIdle ==
  /\ smPc = "idle"
  /\ sitemapWeb = <<>>
  /\ limit = 0
  /\ queue = <<>>
  /\ smSeen = {}
  /\ smOut = <<>>
  /\ fetches = <<>>

NoResult == [fn |-> "none"]

ExtractIdle ==
  /\ exPc = "idle"
  /\ exText = EmptyText
  /\ exArgs = <<>>
  /\ exResult = NoResult

FnIdle ==
  /\ fnPc = "idle"
  /\ fnArgs = <<>>
  /\ fnResult = <<>>

SubIdle == OcrIdle /\ RankIdle /\ SitemapIdle /\ ExtractIdle /\ FnIdle

Init == MainInit /\ SubIdle

\* The configuration file is missing (process.exit(1)) or is no JSON
\* (JSON.parse throws, main().catch exits with status 1).
ConfigFails ==
  /\ pc = "start"
  /\ pc' = "exit1"
  /\ UNCHANGED << subVars, pass, rawCfg, kpis, k, hs, ei, autoVars, DOCUMENT_CACHE, attempted, last >>

\* main up to the first hydrateSeries call: read the file, build the KPIs.
LoadConfig ==
  /\ pc = "start"
  /\ \E cfg \in RawCfgs :
       /\ rawCfg' = cfg
       /\ kpis' = buildCompany(cfg)
  /\ pc' = "hydrate"
  /\ k' = 1
  /\ hs' = "begin"
  /\ UNCHANGED << subVars, pass, ei, autoVars, DOCUMENT_CACHE, attempted, last >>

\* hydrateSeries, first statement, discover branch.
HydrateDiscover ==
  /\ pc = "hydrate" /\ hs = "begin"
  /\ shouldDiscover(kpis[k])
  /\ \E oks \in [1..Len(kpis[k]._discover) -> BOOLEAN] :
       /\ kpis' = [kpis EXCEPT ![k]._cfg =
                     kpis[k]._cfg \o discoverEntries(<<>>, kpis[k]._discover, oks)]
       /\ last' = Last("discover", NoUrl, "none", "none", \E j \in DOMAIN oks : ~oks[j])
  /\ hs' = "entries"
  /\ ei' = 1
  /\ UNCHANGED << subVars, pass, pc, rawCfg, k, autoVars, DOCUMENT_CACHE, attempted >>

\* hydrateSeries, first statement, no discovery.
HydrateNoDiscover ==
  /\ pc = "hydrate" /\ hs = "begin"
  /\ ~shouldDiscover(kpis[k])
  /\ hs' = "entries"
  /\ ei' = 1
  /\ last' = LastNone
  /\ UNCHANGED << subVars, pass, pc, rawCfg, kpis, k, autoVars, DOCUMENT_CACHE, attempted >>

\* One iteration of the explicit-entry loop.
HydrateEntry ==
  /\ pc = "hydrate" /\ hs = "entries"
  /\ ei <= Len(kpis[k]._cfg)
  /\ LET entry == kpis[k]._cfg[ei] IN
     \E outcome \in OutcomesFor(entry.url) :
       LET r == hydrateEntry(kpis[k].series, DOCUMENT_CACHE, entry, outcome, KPI_PATTERNS(k)) IN
         /\ kpis' = [kpis EXCEPT ![k].series = r.series]
         /\ DOCUMENT_CACHE' = r.cache
         /\ attempted' = IF Downloaded(r.fetch) THEN attempted \cup { entry.url }
                         ELSE attempted
         /\ last' = Last("entry", entry.url, r.fetch, "none", r.caught)
         /\ IF r.uncaught
            THEN pc' = "exit1" /\ ei' = ei
            ELSE pc' = pc /\ ei' = ei + 1
  /\ UNCHANGED << subVars, pass, rawCfg, k, hs, autoVars >>

\* After the entry loop: auto-search is not entered.
HydrateNoAuto ==
  /\ pc = "hydrate" /\ hs = "entries"
  /\ ei > Len(kpis[k]._cfg)
  /\ ~shouldAutoFill(kpis[k])
  /\ hs' = "cleanup"
  /\ last' = LastNone
  /\ UNCHANGED << subVars, pass, pc, rawCfg, kpis, k, ei, autoVars, DOCUMENT_CACHE, attempted >>

\* The four `delete kpi._...` statements; main's loop moves on.
HydrateCleanup ==
  /\ pc = "hydrate" /\ hs = "cleanup"
  /\ kpis' = [kpis EXCEPT ![k] = [series |-> kpis[k].series]]
  /\ IF k < NumKpis
     THEN /\ k' = k + 1 /\ hs' = "begin" /\ pc' = pc
     ELSE /\ k' = k /\ hs' = "idle" /\ pc' = "write"
  /\ ei' = 0
  /\ last' = LastNone
  /\ UNCHANGED << subVars, pass, rawCfg, autoVars, DOCUMENT_CACHE, attempted >>

\* fs.writeFileSync of the dataset.
WriteOutput ==
  /\ pc = "write"
  /\ pc' = "written"
  /\ UNCHANGED << subVars, pass, rawCfg, kpis, k, hs, ei, autoVars, DOCUMENT_CACHE, attempted, last >>

(***************************************************************************)
(* autoFillSeries: crawl, expansion, ranking.                              *)
(***************************************************************************)
Item(url, text) == [url |-> url, text |-> text]

\* What the sitemap tree of the ticker lists (fetchSitemapUrls).
SitemapLocs == << UrlReport, UrlScanQ2 >>

\* The links of the ticker's listing page; the page is served in one of
\* three layouts: the anchor text of the scan names a period, the anchor
\* text of the news page does, or no link has an anchor text.
ListLayouts == { "anchors", "dated", "bare" }
ListLinks(layout) ==
  IF layout = "anchors"
  THEN << Item(UrlScan, AnchorQ4), Item(UrlNews, NoAnchor) >>
  ELSE IF layout = "dated"
  THEN << Item(UrlScan, NoAnchor), Item(UrlNews, AnchorQ4) >>
  ELSE << Item(UrlScan, NoAnchor), Item(UrlNews, NoAnchor) >>

\* The links inside the HTML of a document (extractLinkEntriesFromHtml).
HtmlLinks(url) ==
  IF url = UrlNews
  THEN << Item(UrlScan, NoAnchor), Item(UrlNews, NoAnchor) >>
  ELSE <<>>

\* `candidates.filter((item) => !isPdf(item.url)).slice(0, expandFromFirst)`
htmlCandidates(list) ==
  LET NotPdf(item) == ~isPdf(item.url) IN SelectSeq(list, NotPdf)

\* the PDF links of an expanded page
pdfLinks(list) ==
  LET IsPdfItem(item) == isPdf(item.url) IN SelectSeq(list, IsPdfItem)

\* dedupeEntries: the first item of each URL is kept.
RECURSIVE dedupeFrom(_, _)
dedupeFrom(list, seen) ==
  IF list = <<>> THEN <<>>
  ELSE IF Head(list).url = NoUrl \/ Head(list).url \in seen
       THEN dedupeFrom(Tail(list), seen)
       ELSE << Head(list) >> \o dedupeFrom(Tail(list), seen \cup { Head(list).url })

dedupeEntries(list) == dedupeFrom(list, {})

\* scoreUrl + the anchor-text part of scoreCandidate
scoreCandidate(item) ==
  (IF isPdf(item.url) THEN 4 ELSE 0)
  + (IF item.url.period # NoPeriod THEN 4 ELSE 0)
  + 2 * item.url.keywords
  + (IF item.text.words = "" THEN 0
     ELSE (IF item.text.period # NoPeriod THEN 4 ELSE 0) + 2 * item.text.keywords)

\* `.filter((item) => item.score >= 3)`
MinScore == 3

\* `autoCfg.maxDocs || 80`
DefaultMaxDocs == 80

\* `.sort((a, b) => b.score - a.score)`: stable insertion by descending score
RECURSIVE sortByScore(_)
sortByScore(list) ==
  IF list = <<>> THEN <<>>
  ELSE
    LET h == Head(list)
        Higher(item) == scoreCandidate(item) > scoreCandidate(h)
        NotHigher(item) == ~Higher(item)
    IN  sortByScore(SelectSeq(Tail(list), Higher))
          \o << h >> \o
        sortByScore(SelectSeq(Tail(list), NotHigher))

\* `const filtered = candidates.filter(...); if (filtered.length) candidates = filtered`
filterIfAny(list, filtered) == IF filtered # <<>> THEN filtered ELSE list

\* Lines 938-954: the keyword, PDF and period filters, each applied only
\* if it leaves something.
filterPool(list, meta) ==
  LET HasKeyword(item) == item.url.keywords > 0 \/ item.text.keywords > 0
      IsPdfItem(item)  == isPdf(item.url)
      HasPeriod(item)  == \/ inferPeriodFromString(item.url) # NoPeriod
                          \/ inferPeriodFromString(item.text) # NoPeriod
      c1 == filterIfAny(list, SelectSeq(list, HasKeyword))
      c2 == IF meta.requiresPdf THEN filterIfAny(c1, SelectSeq(c1, IsPdfItem)) ELSE c1
  IN  filterIfAny(c2, SelectSeq(c2, HasPeriod))

\* `.slice(0, maxDocs)`
truncate(list, maxDocs) ==
  SubSeq(list, 1, IF Len(list) < maxDocs THEN Len(list) ELSE maxDocs)

\* Lines 956-961: de-duplication, scoring, the minimum score, the sort and
\* the cut to maxDocs, in the order of the code.
rankFiltered(list, maxDocs) ==
  LET Enough(item) == scoreCandidate(item) >= MinScore
  IN  truncate(sortByScore(SelectSeq(dedupeEntries(list), Enough)), maxDocs)

\* Lines 938-961 with `autoCfg.maxDocs` unset
rankCandidates(list, meta) == rankFiltered(filterPool(list, meta), DefaultMaxDocs)

\* `typeof autoCfg.ocrMaxDocs === "number" ? autoCfg.ocrMaxDocs : 8`
DefaultOcrMaxDocs == 8
ocrBudget(autoCfg) ==
  IF autoCfg.ocrMaxDocs # Null THEN autoCfg.ocrMaxDocs[1] ELSE DefaultOcrMaxDocs

(***************************************************************************)
(* autoFillSeries: one iteration of `for (const item of candidates)`.      *)
(***************************************************************************)
OcrOutcomes == { "ok", "empty", "fail" }

\* the text ocrPdfBuffer returns: "" when no page could be rendered
ocrText(buffer, ocrOutcome) ==
  IF ocrOutcome = "ok" THEN WebOcrText(buffer) ELSE EmptyText

\* primary then fallback bank
extractBanks(folded, meta, period, strictPeriod) ==
  LET v == extractValueFromText(folded, meta.primaryPatterns, meta, period, strictPeriod)
  IN  IF v = Null /\ meta.fallbackPatterns # <<>>
      THEN extractValueFromText(folded, meta.fallbackPatterns, meta, period, strictPeriod)
      ELSE v

CandResult(series, cache, miss, remaining, fetch, ocr, caught, uncaught) ==
  [series |-> series, cache |-> cache, missing |-> miss, ocrRemaining |-> remaining,
   fetch |-> fetch, ocr |-> ocr, caught |-> caught, uncaught |-> uncaught]

\* the period stays in the missing set after the assignment
autoAssign_KeepMissing(series, cache, miss, remaining, fetch, ocr, caught, period, value) ==
  IF value = Null
  THEN CandResult(series, cache, miss, remaining, fetch, ocr, caught, FALSE)
  ELSE CandResult(assignValue(series, period, value), cache, miss,
                  remaining, fetch, ocr, caught, FALSE)

\* Lines 1097-1103: `if (value === null) continue;` else assign the value
\* and take the period out of the missing set.
autoAssign(series, cache, miss, remaining, fetch, ocr, caught, period, value) ==
  IF value = Null
  THEN CandResult(series, cache, miss, remaining, fetch, ocr, caught, FALSE)
  ELSE CandResult(assignValue(series, period, value), cache,
                  IF findTarget(series, period) # 0 THEN miss \ { period } ELSE miss,
                  remaining, fetch, ocr, caught, FALSE)

\* Lines 1063-1088: the bank patterns without period check on the OCR text,
\* then the row patterns on its lines; "" gives nothing.
ocrExtract(text, meta, period) ==
  IF text.empty THEN Null
  ELSE LET v == extractBanks(text, meta, period, FALSE)
       IN  IF v = Null THEN extractValueFromLines(text, meta) ELSE v

\* Lines 1060-1096, entered: ensureOcr calls ocrPdfBuffer unless this
\* iteration already holds an OCR text (haveText); a throw is caught by
\* the try/catch of the block, before the budget is decremented.
autoOcrRetry(series, r, miss, remaining, meta, period, text, haveText, ocr, ocrOutcome) ==
  IF haveText
  THEN autoAssign(series, r.cache, miss, remaining, r.fetch, ocr, FALSE,
                  period, ocrExtract(text, meta, period))
  ELSE IF ocrOutcome = "fail"
  THEN autoAssign(series, r.cache, miss, remaining, r.fetch, "fail", TRUE, period, Null)
  ELSE autoAssign(series, r.cache, miss, remaining - 1, r.fetch, ocrOutcome, FALSE,
                  period, ocrExtract(ocrText(r.doc.buffer, ocrOutcome), meta, period))

\* relaxed matching follows strict matching for every candidate
textLayerValue_AlwaysRelaxed(folded, meta, period, periodFromUrl) ==
  LET strict == extractBanks(folded, meta, period, TRUE)
  IN  IF strict = Null THEN extractBanks(folded, meta, period, FALSE) ELSE strict

\* Lines 1018-1059: strict period matching over the banks, then, only when
\* the period came from the URL, relaxed matching.
textLayerValue(folded, meta, period, periodFromUrl) ==
  LET strict == extractBanks(folded, meta, period, TRUE)
  IN  IF strict = Null /\ periodFromUrl # NoPeriod
      THEN extractBanks(folded, meta, period, FALSE)
      ELSE strict

\* the retry block does not look at the text-layer value
autoExtract_AlwaysOcr(series, r, miss, remaining, item, meta, autoCfg, period, text, haveText, ocr, ocrOutcome) ==
  IF period = NoPeriod \/ period \notin miss
  THEN CandResult(series, r.cache, miss, remaining, r.fetch, ocr, FALSE, FALSE)
  ELSE IF autoCfg.ocr /\ r.doc.isPdf /\ remaining > 0
       THEN autoOcrRetry(series, r, miss, remaining, meta, period, text, haveText, ocr, ocrOutcome)
       ELSE autoAssign(series, r.cache, miss, remaining, r.fetch, ocr, FALSE, period,
                       textLayerValue(r.doc.folded, meta, period, inferPeriodFromString(item.url)))

\* Lines 1015-1096: the period check, text-layer extraction, OCR retry.
autoExtract(series, r, miss, remaining, item, meta, autoCfg, period, text, haveText, ocr, ocrOutcome) ==
  IF period = NoPeriod \/ period \notin miss
  THEN CandResult(series, r.cache, miss, remaining, r.fetch, ocr, FALSE, FALSE)
  ELSE
    LET value == textLayerValue(r.doc.folded, meta, period, inferPeriodFromString(item.url))
    IN  IF value = Null /\ autoCfg.ocr /\ r.doc.isPdf /\ remaining > 0
        THEN autoOcrRetry(series, r, miss, remaining, meta, period, text, haveText, ocr, ocrOutcome)
        ELSE autoAssign(series, r.cache, miss, remaining, r.fetch, ocr, FALSE, period, value)

\* `periodFromUrl || periodFromText || inferPeriodFromText(doc.folded)`
firstPeriod(item, doc) ==
  IF inferPeriodFromString(item.url) # NoPeriod THEN inferPeriodFromString(item.url)
  ELSE IF inferPeriodFromString(item.text) # NoPeriod THEN inferPeriodFromString(item.text)
  ELSE inferPeriodFromText(doc.folded)

\* Lines 1009-1014: OCR to infer the period.  A throw of ocrPdfBuffer here
\* reaches the catch of the loop body, before the budget is decremented.
\* The `ocr` field of the result tells this call ("period-...") from the
\* call of the retry block.
autoInfer(series, r, miss, remaining, item, meta, autoCfg, ocrOutcome) ==
  IF firstPeriod(item, r.doc) = NoPeriod /\ autoCfg.ocr /\ r.doc.isPdf /\ remaining > 0
  THEN IF ocrOutcome = "fail"
       THEN CandResult(series, r.cache, miss, remaining, r.fetch, "period-fail", TRUE, FALSE)
       ELSE autoExtract(series, r, miss, remaining - 1, item, meta, autoCfg,
                        IF ocrOutcome = "ok"
                        THEN inferPeriodFromText(ocrText(r.doc.buffer, ocrOutcome))
                        ELSE NoPeriod,
                        ocrText(r.doc.buffer, ocrOutcome), TRUE,
                        "period-" \o ocrOutcome, ocrOutcome)
  ELSE autoExtract(series, r, miss, remaining, item, meta, autoCfg,
                   firstPeriod(item, r.doc), EmptyText, FALSE, "none", ocrOutcome)

\* the fetch sits outside the try/catch of the loop body
autoFetched_NoCatch(series, r, miss, remaining, item, meta, autoCfg, ocrOutcome) ==
  IF r.threw
  THEN CandResult(series, r.cache, miss, remaining, r.fetch, "none", FALSE, TRUE)
  ELSE autoInfer(series, r, miss, remaining, item, meta, autoCfg, ocrOutcome)

\* Lines 984-988 after the fetch: a failed fetch is caught by the loop body.
autoFetched(series, r, miss, remaining, item, meta, autoCfg, ocrOutcome) ==
  IF r.threw
  THEN CandResult(series, r.cache, miss, remaining, r.fetch, "none", TRUE, FALSE)
  ELSE autoInfer(series, r, miss, remaining, item, meta, autoCfg, ocrOutcome)

\* One iteration of the candidate loop (lines 982-1106).
autoCandidate(series, cache, miss, remaining, item, meta, autoCfg, outcome, ocrOutcome) ==
  IF /\ inferPeriodFromString(item.url) # NoPeriod
     /\ inferPeriodFromString(item.url) \notin miss
  THEN CandResult(series, cache, miss, remaining, "none", "none", FALSE, FALSE)
  ELSE CHOOSE res \in { autoFetched(series, r, miss, remaining, item, meta, autoCfg, ocrOutcome) :
                          r \in { fetchDocument(cache, item.url, outcome) } } : TRUE

(***************************************************************************)
(* Actions of autoFillSeries.                                              *)
(***************************************************************************)
\* `autoCfg.expandMax || 240`
DefaultExpandMax == 240

\* hydrateSeries enters autoFillSeries: the sitemap crawl and the listing
\* page.  A sitemap or listing page that cannot be fetched is caught and
\* contributes nothing.
AutoCrawl ==
  /\ pc = "hydrate" /\ hs = "entries"
  /\ ei > Len(kpis[k]._cfg)
  /\ shouldAutoFill(kpis[k])
  /\ \E sitemapOk \in BOOLEAN, listing \in ListLayouts \cup { "fail" } :
       /\ pool' = (IF sitemapOk
                   THEN [i \in 1..Len(SitemapLocs) |-> Item(SitemapLocs[i], NoAnchor)]
                   ELSE <<>>)
                  \o (IF listing = "fail" THEN <<>> ELSE ListLinks(listing))
       /\ last' = Last("crawl", NoUrl, "none", "none", ~sitemapOk \/ listing = "fail")
  /\ hs' = "expand"
  /\ xi' = 1
  /\ extra' = <<>>
  /\ ocrCalls' = 0
  /\ UNCHANGED << subVars, pass, pc, rawCfg, kpis, k, ei, candidates, ci, missing, ocrRemaining,
                  DOCUMENT_CACHE, attempted >>

\* One iteration of the expansion loop over the non-PDF candidates.
AutoExpand ==
  /\ pc = "hydrate" /\ hs = "expand"
  /\ xi <= Len(htmlCandidates(pool))
  /\ LET item == htmlCandidates(pool)[xi] IN
     \E outcome \in OutcomesFor(item.url) :
       LET r     == fetchDocument(DOCUMENT_CACHE, item.url, outcome)
           found == IF r.threw \/ r.doc.isPdf THEN <<>> ELSE pdfLinks(HtmlLinks(item.url))
       IN  /\ DOCUMENT_CACHE' = r.cache
           /\ attempted' = IF Downloaded(r.fetch) THEN attempted \cup { item.url }
                           ELSE attempted
           /\ extra' = extra \o found
           /\ xi' = IF Len(extra \o found) >= DefaultExpandMax
                    THEN Len(htmlCandidates(pool)) + 1 ELSE xi + 1
           /\ last' = Last("expand", item.url, r.fetch, "none", r.threw)
  /\ UNCHANGED << subVars, pass, pc, rawCfg, kpis, k, hs, ei, pool, candidates, ci, missing,
                  ocrRemaining, ocrCalls >>

\* Filters, ranking, the missing set and the OCR budget.
AutoRank ==
  /\ pc = "hydrate" /\ hs = "expand"
  /\ xi > Len(htmlCandidates(pool))
  /\ candidates' = rankCandidates(pool \o extra, KPI_PATTERNS(k))
  /\ missing' = missingPeriods(kpis[k].series)
  /\ ocrRemaining' = ocrBudget(kpis[k]._auto)
  /\ ci' = 1
  /\ hs' = "auto"
  /\ pool' = <<>>
  /\ extra' = <<>>
  /\ xi' = 0
  /\ last' = LastNone
  /\ UNCHANGED << subVars, pass, pc, rawCfg, kpis, k, ei, DOCUMENT_CACHE, attempted, ocrCalls >>

\* the loop has no `if (!missing.size) break`
AutoCandidate_NoBreak ==
  /\ pc = "hydrate" /\ hs = "auto"
  /\ ci <= Len(candidates)
  /\ LET item == candidates[ci] IN
     \E outcome \in OutcomesFor(item.url), ocrOutcome \in OcrOutcomes :
       \E r \in { autoCandidate(kpis[k].series, DOCUMENT_CACHE, missing, ocrRemaining,
                                 item, KPI_PATTERNS(k), kpis[k]._auto, outcome, ocrOutcome) } :
           /\ kpis' = [kpis EXCEPT ![k].series = r.series]
           /\ DOCUMENT_CACHE' = r.cache
           /\ attempted' = IF Downloaded(r.fetch) THEN attempted \cup { item.url }
                           ELSE attempted
           /\ missing' = r.missing
           /\ ocrRemaining' = r.ocrRemaining
           /\ ocrCalls' = IF r.ocr # "none" THEN ocrCalls + 1 ELSE ocrCalls
           /\ last' = Last("cand", item.url, r.fetch, r.ocr, r.caught)
           /\ pc' = pc /\ ci' = ci + 1
  /\ UNCHANGED << subVars, pass, rawCfg, k, hs, ei, pool, xi, extra, candidates >>

\* One iteration of the candidate loop.
AutoCandidate ==
  /\ pc = "hydrate" /\ hs = "auto"
  /\ ci <= Len(candidates)
  /\ missing # {}
  /\ LET item == candidates[ci] IN
     \E outcome \in OutcomesFor(item.url), ocrOutcome \in OcrOutcomes :
       \E r \in { autoCandidate(kpis[k].series, DOCUMENT_CACHE, missing, ocrRemaining,
                                 item, KPI_PATTERNS(k), kpis[k]._auto, outcome, ocrOutcome) } :
           /\ kpis' = [kpis EXCEPT ![k].series = r.series]
           /\ DOCUMENT_CACHE' = r.cache
           /\ attempted' = IF Downloaded(r.fetch) THEN attempted \cup { item.url }
                           ELSE attempted
           /\ missing' = r.missing
           /\ ocrRemaining' = r.ocrRemaining
           /\ ocrCalls' = IF r.ocr # "none" THEN ocrCalls + 1 ELSE ocrCalls
           /\ last' = Last("cand", item.url, r.fetch, r.ocr, r.caught)
           /\ IF r.uncaught
              THEN pc' = "exit1" /\ ci' = ci
              ELSE pc' = pc /\ ci' = ci + 1
  /\ UNCHANGED << subVars, pass, rawCfg, k, hs, ei, pool, xi, extra, candidates >>

\* The candidate loop ends: the list is exhausted or nothing is missing.
AutoEnd ==
  /\ pc = "hydrate" /\ hs = "auto"
  /\ ci > Len(candidates) \/ missing = {}
  /\ hs' = "cleanup"
  /\ candidates' = <<>>
  /\ ci' = 0
  /\ missing' = {}
  /\ ocrRemaining' = 0
  /\ ocrCalls' = 0
  /\ last' = LastNone
  /\ UNCHANGED << subVars, pass, pc, rawCfg, kpis, k, ei, pool, xi, extra, DOCUMENT_CACHE, attempted >>

(***************************************************************************)
(* Specification.                                                          *)
(***************************************************************************)
Next ==
  \/ ConfigFails
  \/ LoadConfig
  \/ HydrateDiscover
  \/ HydrateNoDiscover
  \/ HydrateEntry
  \/ HydrateNoAuto
  \/ AutoCrawl
  \/ AutoExpand
  \/ AutoRank
  \/ AutoCandidate
  \/ AutoEnd
  \/ HydrateCleanup
  \/ WriteOutput

Spec == Init /\ [][Next]_vars

\* Every step is a step of the one thread of the program, which runs until
\* it has written the output or exited.
FairSpec == Spec /\ WF_vars(Next)

(***************************************************************************)
(* A caller that runs hydrateSeries a second time over the dataset.        *)
(***************************************************************************)
\* The caller hands the hydrated KPI objects back to hydrateSeries with the
\* entries, discover blocks and auto block of the configuration attached
\* again (the first call deleted them; without them `kpi._cfg.length`
\* throws).
Rehydrate ==
  /\ pc = "written" /\ pass = 1
  /\ kpis' = [j \in 1..NumKpis |->
                [series    |-> kpis[j].series,
                 _cfg      |-> rawCfg[j].entries,
                 _discover |-> rawCfg[j].discover,
                 _auto     |-> rawCfg[j].auto]]
  /\ pass' = 2
  /\ pc' = "hydrate"
  /\ k' = 1
  /\ hs' = "begin"
  /\ UNCHANGED << subVars, rawCfg, ei, autoVars, DOCUMENT_CACHE, attempted, last >>

RehydrateNext ==
  \/ Next
  \/ Rehydrate

RehydrateSpec == Init /\ [][RehydrateNext]_vars

(***************************************************************************)
(* ocrPdfBuffer: findTesseractBinary, engine selection, ocrWithCli and     *)
(* ocrWithJs.                                                              *)
(***************************************************************************)
\* most pages a PDF renders to
MaxPages == 2

\* `null` of findTesseractBinary
NoBin == ""

\* The machine: TESSERACT_PATH (unset, naming no file, naming a file),
\* whether `which tesseract` prints an existing file, whether one of the
\* standard Windows locations exists.
Machine(envPath, which, fallback) ==
  [envPath |-> envPath, which |-> which, fallback |-> fallback]

Machines ==
  { Machine("unset", FALSE, FALSE), Machine("file", FALSE, FALSE),
    Machine("stale", TRUE, FALSE), Machine("unset", FALSE, TRUE) }

\* findTesseractBinary: the cached path, else the first of TESSERACT_PATH,
\* the PATH probe and the fallback locations that exists.
findTesseractBinary(bin, machine) ==
  IF bin # NoBin THEN bin
  ELSE IF machine.envPath = "file" THEN "env:tesseract"
  ELSE IF machine.which THEN "path:tesseract"
  ELSE IF machine.fallback THEN "C:/Program Files/Tesseract-OCR/tesseract.exe"
  ELSE NoBin

\* opts of ocrPdfBuffer / ocrWithCli: engine ("" when not given),
\* rotateAngles, requireKeywords, the number of ocrKeywords.
OcrOpts(eng, rotateAngles, requireKeywords, ocrKeywords, machine) ==
  [engine |-> eng, rotateAngles |-> rotateAngles, requireKeywords |-> requireKeywords,
   ocrKeywords |-> ocrKeywords, machine |-> machine]

\* The calls followed: every engine setting on every machine, and every
\* rotation and keyword setting with the binary on the PATH.
OcrOptsSet ==
  { OcrOpts(e, <<>>, TRUE, 1, m) : e \in { "", "auto", "cli", "js" }, m \in Machines }
  \cup
  { OcrOpts("auto", r, q, n, Machine("unset", TRUE, FALSE)) :
      r \in { <<>>, << 90 >>, << 0, 90, 180, 270 >> }, q \in BOOLEAN, n \in { 0, 1 } }

\* `auto` does not look for the binary
selectEngine_AutoIsJs(engineOpt, canUseCli) ==
  LET eng == IF engineOpt = "" THEN "auto" ELSE engineOpt
  IN  IF eng = "js" THEN "js"
      ELSE IF eng = "cli" THEN (IF canUseCli = NoBin THEN "js" ELSE "cli")
      ELSE "js"

\* Lines 429 and 435-453: the engine function ocrPdfBuffer enters.
selectEngine(engineOpt, canUseCli) ==
  LET eng == IF engineOpt = "" THEN "auto" ELSE engineOpt
  IN  IF eng = "js" THEN "js"
      ELSE IF eng = "cli" THEN (IF canUseCli = NoBin THEN "js" ELSE "cli")
      ELSE IF canUseCli # NoBin THEN "cli"
      ELSE "js"

\* What tesseract reads from one rotation of a page: the number of digits
\* and the summed weight of the configured keywords found in it.
OcrOut(digits, kw) == [digits |-> digits, kw |-> kw]

OcrOuts(ocrKeywords) ==
  { OcrOut(10, 0), OcrOut(600, 0) } \cup
  (IF ocrKeywords > 0 THEN { OcrOut(10, 1) } ELSE {})

MaxDigitScore == 500
KeywordWeight == 1000

scoreOcrText(out, ocrKeywords) ==
  (IF ocrKeywords > 0 THEN out.kw ELSE 0) * KeywordWeight
  + (IF out.digits < MaxDigitScore THEN out.digits ELSE MaxDigitScore)

\* a text read from rotation `angle` of page `page`; "" is NoText
PageText(page, angle, out) == [page |-> page, angle |-> angle, out |-> out]
NoText == PageText(0, 0, OcrOut(0, 0))

\* Lines 370-371: rotateAngles of ocrWithCli
cliAngles(raw) ==
  LET angles == IF raw # <<>> THEN raw ELSE << 0 >>
  IN  IF \E i \in DOMAIN angles : angles[i] = 0 THEN angles ELSE << 0 >> \o angles

\* `opts.requireKeywords === true && keywords.length > 0`
cliRequireKeywords(opts) == opts.requireKeywords /\ opts.ocrKeywords > 0

\* the directory is removed after the loop instead of in a finally block
leaveTry_OnSuccess(dir, threw) == IF threw THEN dir ELSE "removed"

\* `finally { fs.rmSync(tmpDir, { recursive: true, force: true }) }`
leaveTry(dir, threw) == "removed"

OcrInit ==
  /\ MainInit
  /\ FnIdle
  /\ RankIdle
  /\ SitemapIdle
  /\ ExtractIdle
  /\ ocrPc = "start"
  /\ ocrOpts \in OcrOptsSet
  /\ TESSERACT_BIN = NoBin
  /\ pages = 0
  /\ engine = "none"
  /\ tmpDir = "none"
  /\ pageNo = 0
  /\ angleNo = 0
  /\ bestText = NoText
  /\ bestScore = -1
  /\ pageTexts = <<>>
  /\ scans = <<>>
  /\ worker = "none"

\* ocrPdfBuffer up to `if (!pages.length) return ""`
OcrRender ==
  /\ ocrPc = "start"
  /\ \E rendered \in { -1 } \cup (0..MaxPages) :
       /\ pages' = IF rendered < 0 THEN 0 ELSE rendered
       /\ ocrPc' = IF rendered < 0 THEN "threw"
                   ELSE IF rendered = 0 THEN "returned" ELSE "select"
  /\ UNCHANGED << besideOcr, ocrOpts, TESSERACT_BIN, engine, tmpDir, pageNo, angleNo,
                  bestText, bestScore, pageTexts, scans, worker >>

\* ocrPdfBuffer: `canUseCli = findTesseractBinary()` and the engine branches
OcrSelect ==
  /\ ocrPc = "select"
  /\ LET canUseCli == findTesseractBinary(TESSERACT_BIN, ocrOpts.machine) IN
       /\ TESSERACT_BIN' = canUseCli
       /\ engine' = selectEngine(ocrOpts.engine, canUseCli)
       /\ ocrPc' = selectEngine(ocrOpts.engine, canUseCli)
  /\ UNCHANGED << besideOcr, ocrOpts, pages, tmpDir, pageNo, angleNo,
                  bestText, bestScore, pageTexts, scans, worker >>

\* ocrWithCli up to the try: no binary returns null (ocrPdfBuffer throws
\* "Tesseract CLI not available."), else mkdtempSync makes the directory or
\* throws.
CliStart ==
  /\ ocrPc = "cli" /\ pageNo = 0
  /\ IF findTesseractBinary(TESSERACT_BIN, ocrOpts.machine) = NoBin
     THEN /\ ocrPc' = "threw"
          /\ UNCHANGED << tmpDir, pageNo, angleNo, scans >>
     ELSE \E made \in BOOLEAN :
            IF made
            THEN /\ tmpDir' = "exists"
                 /\ pageNo' = 1
                 /\ angleNo' = 1
                 /\ scans' = [p \in 1..pages |-> <<>>]
                 /\ ocrPc' = ocrPc
            ELSE /\ ocrPc' = "threw"
                 /\ UNCHANGED << tmpDir, pageNo, angleNo, scans >>
  /\ bestText' = NoText
  /\ bestScore' = -1
  /\ UNCHANGED << besideOcr, ocrOpts, TESSERACT_BIN, pages, engine, pageTexts, worker >>

\* One iteration of `for (const angle of rotateAngles)`: rotate, write the
\* image, run tesseract (any of the three may throw: the finally block
\* runs), score the text, keep it if it is the best so far.
CliAngle ==
  /\ ocrPc = "cli" /\ tmpDir = "exists"
  /\ pageNo <= pages
  /\ angleNo <= Len(cliAngles(ocrOpts.rotateAngles))
  /\ \E ok \in BOOLEAN, out \in OcrOuts(ocrOpts.ocrKeywords) :
       LET angle == cliAngles(ocrOpts.rotateAngles)[angleNo]
           score == scoreOcrText(out, ocrOpts.ocrKeywords)
           skip  == cliRequireKeywords(ocrOpts) /\ score < KeywordWeight /\ angle = 0
           stop  == ~skip /\ angle = 0 /\ score >= KeywordWeight
       IN  IF ~ok
           THEN /\ tmpDir' = leaveTry(tmpDir, TRUE)
                /\ ocrPc' = "threw"
                /\ UNCHANGED << angleNo, bestText, bestScore, scans >>
           ELSE /\ scans' = [scans EXCEPT ![pageNo] = Append(@, PageText(pageNo, angle, out))]
                /\ bestText' = IF ~skip /\ score > bestScore
                               THEN PageText(pageNo, angle, out) ELSE bestText
                /\ bestScore' = IF ~skip /\ score > bestScore THEN score ELSE bestScore
                /\ angleNo' = IF stop THEN Len(cliAngles(ocrOpts.rotateAngles)) + 1
                              ELSE angleNo + 1
                /\ UNCHANGED << tmpDir, ocrPc >>
  /\ UNCHANGED << besideOcr, ocrOpts, TESSERACT_BIN, pages, engine, pageNo, pageTexts, worker >>

\* `text += bestText` after the rotations of a page
CliPageEnd ==
  /\ ocrPc = "cli" /\ tmpDir = "exists"
  /\ pageNo <= pages
  /\ angleNo > Len(cliAngles(ocrOpts.rotateAngles))
  /\ pageTexts' = Append(pageTexts, bestText)
  /\ pageNo' = pageNo + 1
  /\ angleNo' = 1
  /\ bestText' = NoText
  /\ bestScore' = -1
  /\ UNCHANGED << besideOcr, ocrOpts, TESSERACT_BIN, pages, engine, tmpDir, ocrPc, scans, worker >>

\* after the last page: the finally block, `return text`
CliReturn ==
  /\ ocrPc = "cli" /\ tmpDir = "exists"
  /\ pageNo > pages
  /\ tmpDir' = leaveTry(tmpDir, FALSE)
  /\ ocrPc' = "returned"
  /\ UNCHANGED << besideOcr, ocrOpts, TESSERACT_BIN, pages, engine, pageNo, angleNo,
                  bestText, bestScore, pageTexts, scans, worker >>

\* ocrWithJs: getOcrWorker creates the worker or throws
JsStart ==
  /\ ocrPc = "js" /\ worker = "none"
  /\ \E created \in BOOLEAN :
       IF created
       THEN worker' = "live" /\ pageNo' = 1 /\ ocrPc' = ocrPc
       ELSE worker' = worker /\ pageNo' = pageNo /\ ocrPc' = "threw"
  /\ UNCHANGED << besideOcr, ocrOpts, TESSERACT_BIN, pages, engine, tmpDir, angleNo,
                  bestText, bestScore, pageTexts, scans >>

\* ocrWithJs: `await worker.recognize(page.image)` of one page
JsPage ==
  /\ ocrPc = "js" /\ worker = "live"
  /\ pageNo <= pages
  /\ \E ok \in BOOLEAN, out \in OcrOuts(ocrOpts.ocrKeywords) :
       IF ok
       THEN /\ pageTexts' = Append(pageTexts, PageText(pageNo, 0, out))
            /\ pageNo' = pageNo + 1
            /\ ocrPc' = ocrPc
       ELSE /\ ocrPc' = "threw"
            /\ UNCHANGED << pageTexts, pageNo >>
  /\ UNCHANGED << besideOcr, ocrOpts, TESSERACT_BIN, pages, engine, tmpDir, angleNo,
                  bestText, bestScore, scans, worker >>

\* ocrWithJs: `await worker.terminate(); return text`
JsReturn ==
  /\ ocrPc = "js" /\ worker = "live"
  /\ pageNo > pages
  /\ worker' = "terminated"
  /\ ocrPc' = "returned"
  /\ UNCHANGED << besideOcr, ocrOpts, TESSERACT_BIN, pages, engine, tmpDir, pageNo, angleNo,
                  bestText, bestScore, pageTexts, scans >>

OcrNext ==
  \/ OcrRender
  \/ OcrSelect
  \/ CliStart
  \/ CliAngle
  \/ CliPageEnd
  \/ CliReturn
  \/ JsStart
  \/ JsPage
  \/ JsReturn

OcrSpec == OcrInit /\ [][OcrNext]_vars

(***************************************************************************)
(* The ranking of autoFillSeries on its own: one pool is filtered and      *)
(* ranked.  A sitemap location enters the pool with an empty text, a link  *)
(* of a listing page with its anchor text, so one URL can be in the pool   *)
(* more than once with different texts.                                    *)
(***************************************************************************)
MaxPool == 3

\* a page whose URL alone scores 2
UrlLow   == Url("tin-tuc/store-1", ".html", NoPeriod, 1)
AnchorKw == Anchor("bao cao cua hang", NoPeriod, 1)

RankItems ==
  { Item(UrlReport, NoAnchor), Item(UrlNews, NoAnchor), Item(UrlScan, NoAnchor),
    Item(UrlScan, AnchorQ4), Item(UrlLow, NoAnchor), Item(UrlLow, AnchorKw) }

\* `autoCfg.maxDocs || 80`
RankCfgs == [requiresPdf : BOOLEAN, maxDocs : { 1, 2, DefaultMaxDocs }]

RankInit ==
  /\ MainInit
  /\ FnIdle
  /\ OcrIdle
  /\ SitemapIdle
  /\ ExtractIdle
  /\ rankPc = "raw"
  /\ rankCfg \in RankCfgs
  /\ rawCandidates \in SeqsUpTo(RankItems, MaxPool)
  /\ filteredPool = <<>>
  /\ ranked = <<>>

\* lines 938-954
RankFilter ==
  /\ rankPc = "raw"
  /\ filteredPool' = filterPool(rawCandidates, rankCfg)
  /\ rankPc' = "filtered"
  /\ UNCHANGED << besideRank, rankCfg, rawCandidates, ranked >>

\* lines 956-961
RankRank ==
  /\ rankPc = "filtered"
  /\ ranked' = rankFiltered(filteredPool, rankCfg.maxDocs)
  /\ rankPc' = "ranked"
  /\ UNCHANGED << besideRank, rankCfg, rawCandidates, filteredPool >>

RankNext == RankFilter \/ RankRank

RankSpec == RankInit /\ [][RankNext]_vars

(***************************************************************************)
(* fetchSitemapUrls on its own: a breadth-first crawl of a finite sitemap  *)
(* graph.  A location is a record of its name and of its ending.           *)
(***************************************************************************)
MaxSeeds == 2
MaxLocs == 2

Loc(name, ext) == [name |-> name, ext |-> ext]
SitemapA == Loc("sitemap", ".xml")
SitemapB == Loc("sitemap-ir", ".xml")
PageLoc  == Loc("ir/bctc-2021q1", ".pdf")
\* an empty seed (`!url`)
NoLoc    == Loc("", "")

Sitemaps == { SitemapA, SitemapB }
Locs == Sitemaps \cup { PageLoc }

\* `loc.endsWith(".xml")`
endsWithXml(loc) == loc.ext = ".xml"

\* fetchBuffer throws or parseSitemapLocs returns the <loc> elements
FetchFails == [failed |-> TRUE]
Served(locs) == [failed |-> FALSE, locs |-> locs]
SitemapWebs == [Sitemaps -> { FetchFails } \cup { Served(l) : l \in SeqsUpTo(Locs, MaxLocs) }]

\* `maxUrls || 2000`
DefaultSitemapLimit == 2000
sitemapLimit(maxUrls) == IF maxUrls = 0 THEN DefaultSitemapLimit ELSE maxUrls

\* `seen.add(url)` without the add
markSeen_Forget(set, url) == set

\* `seen.add(url)`
markSeen(set, url) == set \cup { url }

\* Lines 649-656: the locations of one sitemap, in order, until the limit.
RECURSIVE sortLocs(_, _, _, _)
sortLocs(locs, q, visited, emitted) ==
  IF locs = <<>> THEN [queue |-> q, out |-> emitted]
  ELSE IF endsWithXml(Head(locs)) /\ Head(locs) \notin visited
       THEN sortLocs(Tail(locs), Append(q, Head(locs)), visited, emitted)
       ELSE IF Len(emitted) + 1 >= limit
            THEN [queue |-> q, out |-> Append(emitted, Head(locs))]
            ELSE sortLocs(Tail(locs), q, visited, Append(emitted, Head(locs)))

SitemapInit ==
  /\ MainInit
  /\ FnIdle
  /\ OcrIdle
  /\ RankIdle
  /\ ExtractIdle
  /\ smPc = "loop"
  /\ sitemapWeb \in SitemapWebs
  /\ limit \in { sitemapLimit(m) : m \in 0..2 }
  /\ queue \in SeqsUpTo(Sitemaps \cup { NoLoc }, MaxSeeds)
  /\ smSeen = {}
  /\ smOut = <<>>
  /\ fetches = <<>>

\* `if (!url || seen.has(url)) continue;`
SitemapSkip ==
  /\ smPc = "loop"
  /\ queue # <<>> /\ Len(smOut) < limit
  /\ Head(queue) = NoLoc \/ Head(queue) \in smSeen
  /\ queue' = Tail(queue)
  /\ UNCHANGED << besideSitemap, smPc, sitemapWeb, limit, smSeen, smOut, fetches >>

\* one iteration that fetches the sitemap at the head of the queue
SitemapFetch ==
  /\ smPc = "loop"
  /\ queue # <<>> /\ Len(smOut) < limit
  /\ Head(queue) # NoLoc /\ Head(queue) \notin smSeen
  /\ LET url == Head(queue)
         visited == markSeen(smSeen, url)
         got == sitemapWeb[url]
         res == IF got.failed THEN [queue |-> Tail(queue), out |-> smOut]
                ELSE sortLocs(got.locs, Tail(queue), visited, smOut)
     IN  /\ smSeen' = visited
         /\ fetches' = Append(fetches, url)
         /\ queue' = res.queue
         /\ smOut' = res.out
  /\ UNCHANGED << besideSitemap, smPc, sitemapWeb, limit >>

\* `while (queue.length && out.length < limit)` is false: `return out`
SitemapReturn ==
  /\ smPc = "loop"
  /\ queue = <<>> \/ Len(smOut) >= limit
  /\ smPc' = "returned"
  /\ UNCHANGED << besideSitemap, sitemapWeb, limit, queue, smSeen, smOut, fetches >>

SitemapNext == SitemapSkip \/ SitemapFetch \/ SitemapReturn

SitemapSpec == SitemapInit /\ [][SitemapNext]_vars

\* the awaited fetch settles and the loop goes on
SitemapFairSpec == SitemapSpec /\ WF_vars(SitemapNext)

(***************************************************************************)
(* hasPeriodNearMatch on its own: texts with at most one year token and up *)
(* to MaxMarkers quarter markers, placed inside, before and across the end *)
(* of the window of the match.                                             *)
(***************************************************************************)
MaxMarkers == 1

\* the subsets of S with at most n elements
RECURSIVE SubsetsUpTo(_, _)
SubsetsUpTo(S, n) ==
  IF n = 0 THEN { {} }
  ELSE LET smaller == SubsetsUpTo(S, n - 1)
       IN  smaller \cup { T \cup { x } : T \in smaller, x \in S }

TokenPositions == { 10, 100, 455, 457 }
YearPositions == { 2, 110, 456, 458 }
NearYears == { YearToken(at, year) : at \in YearPositions, year \in { 2021, 2022 } }
MarkerForms ==
  { [word |-> "q", gap |-> 0, numeral |-> << "1" >>],
    [word |-> "q", gap |-> 0, numeral |-> << "2" >>],
    [word |-> "quy", gap |-> 1, numeral |-> << "1" >>],
    [word |-> "quy", gap |-> 1, numeral |-> << "i" >>],
    [word |-> "quy", gap |-> 1, numeral |-> << "i", "i" >>],
    [word |-> "quy", gap |-> 1, numeral |-> << "i", "i", "i" >>],
    [word |-> "quy", gap |-> 1, numeral |-> << "i", "v" >>] }
NearMarkers ==
  { Marker(at, f.word, f.gap, f.numeral) : at \in TokenPositions, f \in MarkerForms }
\* the characters a marker takes
markerLen(marker) ==
  (IF marker.word = "q" THEN 1 ELSE 3) + marker.gap + Len(marker.numeral)

\* no two tokens of the text share a character
Apart(years, quarters) ==
  /\ \A y \in years : \A m \in quarters :
        y.at + 4 <= m.at \/ m.at + markerLen(m) <= y.at
  /\ \A m, n \in quarters :
        m = n \/ m.at + markerLen(m) <= n.at \/ n.at + markerLen(n) <= m.at

NearTexts ==
  { FineText(NoPeriod, c[1], c[2], <<>>, <<>>) :
      c \in { d \in SubsetsUpTo(NearYears, 1) \X SubsetsUpTo(NearMarkers, MaxMarkers) :
                Apart(d[1], d[2]) } }
NearArgs ==
  [index : { 0, 200 },
   period : { NoPeriod, "2021Q1", "2021Q2", "2021Q3", "2021Q4", "2022Q1" }]

NearInit ==
  /\ MainInit
  /\ FnIdle
  /\ OcrIdle
  /\ RankIdle
  /\ SitemapIdle
  /\ exPc = "near"
  /\ exText \in NearTexts
  /\ exArgs \in NearArgs
  /\ exResult = NoResult

NearCall ==
  /\ exPc = "near"
  /\ exResult' = [fn |-> "hasPeriodNearMatch",
                   accepted |-> hasPeriodNearMatch(exText, exArgs.index, exArgs.period)]
  /\ exPc' = "done"
  /\ UNCHANGED << besideExtract, exText, exArgs >>

NearNext == NearCall

NearSpec == NearInit /\ [][NearNext]_vars

(***************************************************************************)
(* extractValueFromText on its own: texts with up to MaxMatches regex      *)
(* matches of two patterns, in text order, with or without the period      *)
(* marker of 2021Q1 near the first match position.                         *)
(***************************************************************************)
MaxMatches == 2

MatchIndexes == { DocIndex, 600 }
MatchSet ==
  { Match(p, i, n.raw, n.unit) :
      p \in { PrimaryPattern, FallbackPattern }, i \in MatchIndexes,
      n \in { [raw |-> Null, unit |-> ""], [raw |-> Num(40), unit |-> ""],
              [raw |-> Num(200), unit |-> ""], [raw |-> Num(200), unit |-> "usd"],
              [raw |-> Num(70000), unit |-> "ty"], [raw |-> Num(300000), unit |-> "trieu"] } }

\* regex.exec reports the matches of a pattern at increasing positions
InTextOrder(list) ==
  \A a, b \in DOMAIN list :
    a < b => /\ list[a].index <= list[b].index
             /\ list[a].pattern = list[b].pattern => list[a].index < list[b].index

MatchLists == { list \in SeqsUpTo(MatchSet, MaxMatches) : InTextOrder(list) }

ExtractTexts ==
  { FineText(NoPeriod, years, quarters, list, <<>>) :
      years \in { {}, { YearToken(DocIndex - 50, 2021) } },
      quarters \in { {}, { Marker(DocIndex - 40, "q", 0, << "1" >>) } },
      list \in MatchLists }

ExtractArgs ==
  [patterns : { << PrimaryPattern >>, << PrimaryPattern, FallbackPattern >>,
                << FallbackPattern, PrimaryPattern >> },
   meta : { KPI_PATTERNS(1), KPI_PATTERNS(2) },
   period : { NoPeriod, "2021Q1" },
   strictPeriod : BOOLEAN]

ExtractInit ==
  /\ MainInit
  /\ FnIdle
  /\ OcrIdle
  /\ RankIdle
  /\ SitemapIdle
  /\ exPc = "extract"
  /\ exText \in ExtractTexts
  /\ exArgs \in ExtractArgs
  /\ exResult = NoResult

ExtractCall ==
  /\ exPc = "extract"
  /\ exResult' = [fn |-> "extractValueFromText",
                   value |-> extractValueFromText(exText, exArgs.patterns, exArgs.meta,
                                                  exArgs.period, exArgs.strictPeriod)]
  /\ exPc' = "done"
  /\ UNCHANGED << besideExtract, exText, exArgs >>

ExtractNext == ExtractCall

ExtractSpec == ExtractInit /\ [][ExtractNext]_vars

(***************************************************************************)
(* The number parser on its own.  A string is the sequence of its          *)
(* characters; "x" stands for any character that is no digit, separator or *)
(* minus sign.  A number is NaN or sign * mant / 10^scale in lowest form.  *)
(***************************************************************************)
MaxChars == 4

Digits == { "0", "1", "2", "3", "4", "5", "6", "7", "8", "9" }
Separators == { ".", "," }
DigitValue(c) ==
  CASE c = "0" -> 0 [] c = "1" -> 1 [] c = "2" -> 2 [] c = "3" -> 3 [] c = "4" -> 4
    [] c = "5" -> 5 [] c = "6" -> 6 [] c = "7" -> 7 [] c = "8" -> 8 [] c = "9" -> 9

NaN == [nan |-> TRUE]

\* sign * mant / 10^scale without trailing zeros of the fraction
RECURSIVE Dec(_, _, _)
Dec(sign, mant, scale) ==
  IF mant = 0 THEN [nan |-> FALSE, sign |-> 1, mant |-> 0, scale |-> 0]
  ELSE IF scale > 0 /\ mant % 10 = 0 THEN Dec(sign, mant \div 10, scale - 1)
  ELSE [nan |-> FALSE, sign |-> sign, mant |-> mant, scale |-> scale]

\* the integer a sequence of digits writes
RECURSIVE digitsValue(_)
digitsValue(ds) ==
  IF ds = <<>> THEN 0
  ELSE 10 * digitsValue(SubSeq(ds, 1, Len(ds) - 1)) + DigitValue(ds[Len(ds)])

Count(str, c) == Cardinality({ i \in DOMAIN str : str[i] = c })
Without(str, c) == LET Keep(d) == d # c IN SelectSeq(str, Keep)
AllDigits(str) == \A i \in DOMAIN str : str[i] \in Digits

\* Number(string) on a string of digits, ".", "," and "-": the empty
\* string is 0; otherwise an optional minus sign, digits, and optionally a
\* dot and digits, with a digit on at least one side; anything else is NaN.
Number(str) ==
  IF str = <<>> THEN Dec(1, 0, 0)
  ELSE
    LET sign == IF str[1] = "-" THEN -1 ELSE 1
        body == IF str[1] = "-" THEN Tail(str) ELSE str
        dots == { i \in DOMAIN body : body[i] = "." }
    IN  IF dots = {}
        THEN IF body # <<>> /\ AllDigits(body) THEN Dec(sign, digitsValue(body), 0) ELSE NaN
        ELSE LET d == CHOOSE i \in dots : \A j \in dots : i <= j
                 int == SubSeq(body, 1, d - 1)
                 frac == SubSeq(body, d + 1, Len(body))
             IN  IF AllDigits(int) /\ AllDigits(frac) /\ Len(int) + Len(frac) > 0
                 THEN Dec(sign, digitsValue(int \o frac), Len(frac))
                 ELSE NaN

\* `String(str).replace(/[^\d,.\-]/g, "")`
cleanNumber(str) ==
  LET Kept(c) == c \in Digits \cup Separators \cup { "-" } IN SelectSeq(str, Kept)

\* the single comma is dropped like a thousands separator
separatorRule_CommaGroups(dotCount, commaCount) ==
  IF dotCount > 1 /\ commaCount = 0 THEN "dropDots"
  ELSE IF commaCount >= 1 THEN "dropCommas"
  ELSE "asIs"

\* Lines 468-472: which replacement is made before Number is applied
separatorRule(dotCount, commaCount) ==
  IF dotCount > 1 /\ commaCount = 0 THEN "dropDots"
  ELSE IF commaCount > 1 /\ dotCount = 0 THEN "dropCommas"
  ELSE IF commaCount = 1 /\ dotCount = 0 THEN "commaToDot"
  ELSE IF commaCount >= 1 /\ dotCount >= 1 THEN "dropCommas"
  ELSE "asIs"

\* normalizeNumber: null for the empty string, else Number of the cleaned
\* string after the replacement
normalizeNumber(str) ==
  IF str = <<>> THEN Null
  ELSE
    LET cleaned == cleanNumber(str)
        rule == separatorRule(Count(cleaned, "."), Count(cleaned, ","))
    IN  CASE rule = "dropDots"   -> Number(Without(cleaned, "."))
          [] rule = "dropCommas" -> Number(Without(cleaned, ","))
          [] rule = "commaToDot" ->
               Number([i \in DOMAIN cleaned |-> IF cleaned[i] = "," THEN "." ELSE cleaned[i]])
          [] OTHER               -> Number(cleaned)

\* normalizeByUnit, first line: `value === null || !Number.isFinite(value)`
rejectedByUnit(value) == value = Null \/ value.nan

\* the strings of the tests and of the specification
TestNumbers ==
  { << "1", ".", "2", "3", "4", ".", "5", "6", "7" >>,
    << "1", ",", "2", "3", "4", ",", "5", "6", "7" >>,
    << "1", ",", "2", "3", "4", ".", "5", "6" >>,
    << "1", ",", "2", "3" >> }

NumberChars == { "0", "1", "2", ".", ",", "-", "x" }
NumberStrings == SeqsUpTo(NumberChars, MaxChars) \cup TestNumbers

NumberInit ==
  /\ MainInit
  /\ OcrIdle /\ RankIdle /\ SitemapIdle /\ ExtractIdle
  /\ fnPc = "normalizeNumber"
  /\ fnArgs \in [fn : { "normalizeNumber" }, str : NumberStrings]
  /\ fnResult = <<>>

NumberCall ==
  /\ fnPc = "normalizeNumber"
  /\ fnResult' = [value |-> normalizeNumber(fnArgs.str)]
  /\ fnPc' = "done"
  /\ UNCHANGED << besideFn, fnArgs >>

NumberNext == NumberCall

NumberSpec == NumberInit /\ [][NumberNext]_vars

(***************************************************************************)
(* pickNumberToken on its own, on raw captures of digits, dots and other   *)
(* characters.                                                             *)
(***************************************************************************)
MaxRaw == 8

\* `raw.match(/[0-9][0-9.,]*/g)`: from left to right, each token starts at
\* a digit and takes the digits and separators that follow
RECURSIVE numberTokens(_, _, _)
numberTokens(str, cur, acc) ==
  IF str = <<>> THEN (IF cur = <<>> THEN acc ELSE Append(acc, cur))
  ELSE IF Head(str) \in Digits \/ (cur # <<>> /\ Head(str) \in Separators)
       THEN numberTokens(Tail(str), Append(cur, Head(str)), acc)
       ELSE numberTokens(Tail(str), <<>>, IF cur = <<>> THEN acc ELSE Append(acc, cur))

\* Lines 528-529
minDigits(unitKind) ==
  IF unitKind = "currency" THEN 6 ELSE IF unitKind = "volume" THEN 2 ELSE 1

\* `token.replace(/[.,]/g, "").length`
digitCount(token) == Len(Without(Without(token, "."), ","))

\* the last token with enough digits is taken
firstEnough_Last(tokens, least) ==
  LET enough == { i \in DOMAIN tokens : digitCount(tokens[i]) >= least }
  IN  IF enough = {} THEN tokens[1]
      ELSE tokens[CHOOSE i \in enough : \A j \in enough : j <= i]

\* Lines 530-534: the first token with enough digits, else the first token
firstEnough(tokens, least) ==
  LET enough == { i \in DOMAIN tokens : digitCount(tokens[i]) >= least }
  IN  IF enough = {} THEN tokens[1]
      ELSE tokens[CHOOSE i \in enough : \A j \in enough : i <= j]

pickNumberToken(raw, unitKind) ==
  LET tokens == numberTokens(raw, <<>>, <<>>)
  IN  IF tokens = <<>> THEN raw ELSE firstEnough(tokens, minDigits(unitKind))

RawChars == { "1", ".", " " }
\* "12.3 45.6" of the tests, and a capture with a token of seven digits
TestRaws ==
  { << "1", "2", ".", "3", " ", "4", "5", ".", "6" >>,
    << "3", " ", "2", "0", "2", "5", " ", "8", ".", "2", "3", "5", ".", "6", "0", "6" >> }

PickInit ==
  /\ MainInit
  /\ OcrIdle /\ RankIdle /\ SitemapIdle /\ ExtractIdle
  /\ fnPc = "pickNumberToken"
  /\ fnArgs \in [fn : { "pickNumberToken" },
                  raw : SeqsUpTo(RawChars, MaxRaw) \cup TestRaws,
                  unitKind : { "currency", "volume", "percent", "count" }]
  /\ fnResult = <<>>

PickCall ==
  /\ fnPc = "pickNumberToken"
  /\ fnResult' = [value |-> pickNumberToken(fnArgs.raw, fnArgs.unitKind)]
  /\ fnPc' = "done"
  /\ UNCHANGED << besideFn, fnArgs >>

PickNext == PickCall

PickSpec == PickInit /\ [][PickNext]_vars

(***************************************************************************)
(* validateDataset (src/lib/kpi.ts) on a dataset of one company with one   *)
(* KPI.  A JSON value is null, a number (possibly not finite, when the     *)
(* object did not come from JSON.parse) or a string of characters.         *)
(***************************************************************************)
MaxPoints == 2

JsonNull == [type |-> "null"]
JsonNumber(n) == [type |-> "number", n |-> n]
JsonString(str) == [type |-> "string", str |-> str]

\* safeNum: null and undefined give null, otherwise Number(x) if finite
safeNum(x) ==
  IF x.type = "null" THEN Null
  ELSE LET n == IF x.type = "number" THEN x.n ELSE Number(x.str)
       IN  IF n.nan THEN Null ELSE n

Point(period, value) == [period |-> period, value |-> value]

\* `for (const s of seriesIn) byP[s.period] = s.value`, then `byP[p]`
RECURSIVE byP(_, _)
byP(seriesIn, p) ==
  IF seriesIn = <<>> THEN Null
  ELSE IF seriesIn[Len(seriesIn)].period = p THEN seriesIn[Len(seriesIn)].value
  ELSE byP(SubSeq(seriesIn, 1, Len(seriesIn) - 1), p)

\* the first point of a period wins
fullSeries_FirstWins(seriesIn) ==
  [i \in 1..Len(PERIODS_Q) |->
     LET OfPeriod(s) == s.period = PERIODS_Q[i]
         points == SelectSeq(seriesIn, OfPeriod)
     IN  Point(PERIODS_Q[i], IF points = <<>> THEN Null ELSE points[1].value)]

\* `PERIODS_Q.map((p) => ({ period: p, value: byP[p] ?? null }))`
fullSeries(seriesIn) ==
  [i \in 1..Len(PERIODS_Q) |-> Point(PERIODS_Q[i], byP(seriesIn, PERIODS_Q[i]))]

\* validateDataset: the checks of the ticker, of agg and of every period,
\* then the series of the 20 periods
validateDataset(obj) ==
  IF obj.ticker \notin { "PNJ", "MWG", "HPG", "TCB" } THEN [threw |-> TRUE]
  ELSE IF obj.agg \notin { "sum", "avg", "last" } THEN [threw |-> TRUE]
  ELSE IF \E i \in DOMAIN obj.series : obj.series[i].period \notin PeriodSet
  THEN [threw |-> TRUE]
  ELSE [threw |-> FALSE, ticker |-> obj.ticker, agg |-> obj.agg,
        series |-> fullSeries([i \in DOMAIN obj.series |->
                     Point(obj.series[i].period, safeNum(obj.series[i].value))])]

\* a returned dataset, given to validateDataset again
asInput(ds) ==
  [ticker |-> ds.ticker, agg |-> ds.agg,
   series |-> [i \in DOMAIN ds.series |->
                 Point(ds.series[i].period,
                       IF ds.series[i].value = Null THEN JsonNull
                       ELSE JsonNumber(ds.series[i].value))]]

JsonValues ==
  { JsonNull, JsonNumber(Dec(1, 1, 0)), JsonNumber(Dec(1, 2, 0)), JsonNumber(NaN),
    JsonString(<< "5" >>), JsonString(<< "x" >>) }
InputPoints == { Point(p, v) : p \in { "2021Q1", "2021Q2", "2020Q4" }, v \in JsonValues }
InputDatasets ==
  [ticker : { "PNJ", "VNM" }, agg : { "sum", "median" }, series : SeqsUpTo(InputPoints, MaxPoints)]

ValidateInit ==
  /\ MainInit
  /\ OcrIdle /\ RankIdle /\ SitemapIdle /\ ExtractIdle
  /\ fnPc = "validateDataset"
  /\ fnArgs \in [fn : { "validateDataset" }, obj : InputDatasets]
  /\ fnResult = <<>>

ValidateCall ==
  /\ fnPc = "validateDataset"
  /\ fnResult' = [first |-> validateDataset(fnArgs.obj)]
  /\ fnPc' = IF fnResult'.first.threw THEN "done" ELSE "validated"
  /\ UNCHANGED << besideFn, fnArgs >>

\* the returned dataset is validated again
ValidateAgain ==
  /\ fnPc = "validated"
  /\ fnResult' = [first |-> fnResult.first, again |-> validateDataset(asInput(fnResult.first))]
  /\ fnPc' = "done"
  /\ UNCHANGED << besideFn, fnArgs >>

ValidateNext == ValidateCall \/ ValidateAgain

ValidateSpec == ValidateInit /\ [][ValidateNext]_vars

(***************************************************************************)
(* discoverEntries on lists of discover blocks.                            *)
(***************************************************************************)
MaxDiscover == 2

DiscoverCfgSet ==
  { DiscoverCfg(listUrl, "link", valuePattern, max) :
      listUrl \in { ListingUrl, ArchiveUrl, "" },
      valuePattern \in { EntryPattern, "" },
      max \in { 1, 2, DefaultDiscoverMax } }

DiscoverInit ==
  /\ MainInit
  /\ OcrIdle /\ RankIdle /\ SitemapIdle /\ ExtractIdle
  /\ fnPc = "discoverEntries"
  /\ fnArgs \in [fn : { "discoverEntries" },
                  discoverCfg : SeqsUpTo(DiscoverCfgSet, MaxDiscover),
                  oks : [1..MaxDiscover -> BOOLEAN]]
  /\ fnResult = <<>>

DiscoverCall ==
  /\ fnPc = "discoverEntries"
  /\ fnResult' = [entries |-> discoverEntries(<<>>, fnArgs.discoverCfg, fnArgs.oks)]
  /\ fnPc' = "done"
  /\ UNCHANGED << besideFn, fnArgs >>

DiscoverNext == DiscoverCall

DiscoverSpec == DiscoverInit /\ [][DiscoverNext]_vars

(***************************************************************************)
(* Properties.                                                             *)
(***************************************************************************)
\* the value of period i of KPI j
ValueAt(state, j, i) == state[j].series[i].value

\* C1: once a period of a series holds a non-null value, no later step of
\* hydration (explicit entry, discovered entry, auto-search candidate)
\* changes that value: the first accepted value wins.
C1_FirstValueWins ==
  [][\A j \in DOMAIN kpis : \A i \in DOMAIN kpis[j].series :
       (pass = 1 /\ j \in DOMAIN kpis' /\ ValueAt(kpis, j, i) # Null)
         => ValueAt(kpis', j, i) = ValueAt(kpis, j, i)]_vars

\* the 20 quarters 2021Q1..2025Q4 in chronological order
YearNames == << "2021", "2022", "2023", "2024", "2025" >>
QuarterNames == << "Q1", "Q2", "Q3", "Q4" >>
Chronological ==
  [i \in 1..20 |-> YearNames[((i - 1) \div 4) + 1] \o QuarterNames[((i - 1) % 4) + 1]]

\* a KPI whose hydrateSeries call has not started
NotStarted(j) == pass = 1 /\ pc = "hydrate" /\ (j > k \/ (j = k /\ hs = "begin"))

\* the periods of a series, in order
PeriodsOf(series) == [i \in DOMAIN series |-> series[i].period]

\* C2: from creation to the written output every series is the 20 fixed
\* periods 2021Q1..2025Q4, each once, in chronological order; its values
\* are all null until its hydration starts; hydration changes values only.
C2_SeriesShape ==
  /\ Cardinality({ Chronological[i] : i \in 1..20 }) = 20
  /\ \A j \in DOMAIN kpis :
       /\ Len(kpis[j].series) = 20
       /\ PeriodsOf(kpis[j].series) = Chronological
       /\ NotStarted(j) => \A i \in 1..20 : ValueAt(kpis, j, i) = Null

\* the output is written and hydration filled periods of two series
C2_Witness ==
  /\ pc = "written"
  /\ \A j \in DOMAIN kpis : \E i \in DOMAIN kpis[j].series : ValueAt(kpis, j, i) # Null

\* C3: a second hydrateSeries call over the same explicit entries on the
\* series the first call filled overwrites no non-null value.
C3_RehydrationKeepsValues ==
  [][(pass = 2 /\ pass' = 2)
       => \A j \in DOMAIN kpis : \A i \in DOMAIN kpis[j].series :
            ValueAt(kpis, j, i) # Null => ValueAt(kpis', j, i) = ValueAt(kpis, j, i)]_vars

\* the series values of all KPIs
AllValues(state) == [j \in DOMAIN state |-> [i \in DOMAIN state[j].series |-> ValueAt(state, j, i)]]

\* C4: a failure (fetch, parse, OCR, extraction) of one entry, discover
\* block, sitemap, listing page or candidate is caught: that step changes
\* no series value, the run does not exit, the loop moves on to the next
\* item, and a run that loaded its configuration never exits early, so
\* every KPI is hydrated before the output is written.
C4_FailureContained ==
  /\ [][last'.caught =>
          /\ AllValues(kpis') = AllValues(kpis)
          /\ pc' = pc
          /\ last'.op = "entry" => ei' = ei + 1 /\ hs' = hs
          /\ last'.op = "cand" => ci' = ci + 1 /\ hs' = hs
          /\ last'.op = "expand" => xi' = xi + 1 /\ hs' = hs
          /\ last'.op = "discover" => hs' = "entries" /\ ei' = 1
          /\ last'.op = "crawl" => hs' = "expand" /\ xi' = 1]_vars
  /\ [](pc = "exit1" => kpis = <<>>)
  /\ [](pc \in { "write", "written" }
          => \A j \in 1..NumKpis : DOMAIN kpis[j] = { "series" })

\* an explicit entry has just failed and the loop has a further entry
C4_Witness ==
  /\ last.op = "entry" /\ last.caught
  /\ pc = "hydrate" /\ hs = "entries" /\ ei <= Len(kpis[k]._cfg)
  /\ k < NumKpis

C6_OneDownloadPerUrl ==
  [][Downloaded(last'.fetch) => last'.url \notin attempted]_vars

\* C6 amended: fetchDocument completes the download and text extraction of
\* a URL at most once; from then on every call for that URL is a cache hit
\* that starts no download; only a URL not in the cache is downloaded.
C6_OneSuccessfulDownloadPerUrl ==
  /\ [][(last'.fetch # "none" /\ last'.url \in DOMAIN DOCUMENT_CACHE)
          => /\ last'.fetch = "hit"
             /\ attempted' = attempted
             /\ DOCUMENT_CACHE' = DOCUMENT_CACHE]_vars
  /\ [][Downloaded(last'.fetch) => last'.url \notin DOMAIN DOCUMENT_CACHE]_vars
  /\ [][last'.fetch = "ok" => last'.url \in DOMAIN DOCUMENT_CACHE']_vars
  /\ [](DOMAIN DOCUMENT_CACHE \subseteq attempted)

\* a candidate of a later KPI is answered from the cache
C6_Witness ==
  /\ last.fetch = "hit" /\ last.op = "cand"
  /\ last.url \in attempted
  /\ k > 1

\* C7: a failing fetchDocument call hands its error to the caller and
\* leaves the cache as it was; an entry is stored only for the URL of a
\* call that succeeded and is its document; a stored entry never changes.
C7_FailedFetchLeavesCache ==
  /\ [][last'.fetch \in { "neterr", "parseerr" }
          => DOCUMENT_CACHE' = DOCUMENT_CACHE /\ last'.caught]_vars
  /\ [][\A u \in DOMAIN DOCUMENT_CACHE :
          u \in DOMAIN DOCUMENT_CACHE' /\ DOCUMENT_CACHE'[u] = DOCUMENT_CACHE[u]]_vars
  /\ [][\A u \in DOMAIN DOCUMENT_CACHE' \ DOMAIN DOCUMENT_CACHE :
          u = last'.url /\ last'.fetch = "ok"]_vars
  /\ [](\A u \in DOMAIN DOCUMENT_CACHE : DOCUMENT_CACHE[u] = Payload(u))

\* a fetch has failed while the cache holds other documents
C7_Witness ==
  /\ last.fetch \in { "neterr", "parseerr" }
  /\ DOCUMENT_CACHE # EmptyCache
  /\ last.url \notin DOMAIN DOCUMENT_CACHE

\* C8: within one auto-search the number of ocrPdfBuffer calls never
\* exceeds the budget ocrMaxDocs (default 8).
C8_OcrWithinBudget ==
  (pc = "hydrate" /\ hs = "auto") => ocrCalls <= ocrBudget(kpis[k]._auto)

\* rank of a position inside hydrateSeries
Phase(h) ==
  CASE h = "begin" -> 0
    [] h = "entries" -> 1
    [] h = "expand" -> 2
    [] h = "auto" -> 3
    [] h = "cleanup" -> 4
    [] OTHER -> 5

\* C9: within one KPI hydration only moves forward through entries,
\* auto-search, done; discoverEntries runs only if no explicit entry is
\* configured; auto-search starts only after every entry was processed,
\* with a period still null and auto-search enabled.
C9_PhaseOrder ==
  [][/\ (pc = "hydrate" /\ pc' = "hydrate" /\ k' = k) => Phase(hs') >= Phase(hs)
     /\ (pc = "hydrate" /\ k' # k) => hs = "cleanup" /\ hs' = "begin" /\ k' = k + 1
     /\ (pc = "hydrate" /\ Phase(hs') > Phase(hs) /\ hs' = "cleanup")
          => ei > Len(kpis[k]._cfg)
     /\ (pc = "hydrate" /\ hs = "begin" /\ last'.op = "discover")
          => rawCfg[k].entries = <<>> /\ kpis[k]._cfg = <<>>
     /\ (hs # "expand" /\ hs' = "expand")
          => /\ hs = "entries"
             /\ ei = Len(kpis[k]._cfg) + 1
             /\ \E i \in DOMAIN kpis[k].series : ValueAt(kpis, k, i) = Null
             /\ kpis[k]._auto.enabled]_vars

\* auto-search runs after the discovered entries were processed
C9_Witness ==
  /\ pc = "hydrate" /\ hs = "auto"
  /\ rawCfg[k].entries = <<>>
  /\ kpis[k]._cfg # <<>>
  /\ \E i \in DOMAIN kpis[k].series : ValueAt(kpis, k, i) # Null

\* C10: autoFillSeries runs for a KPI only when no explicit entry is
\* configured for it.
C10_AutoOnlyWithoutEntries ==
  (pc = "hydrate" /\ hs \in { "expand", "auto" }) => rawCfg[k].entries = <<>>

\* C11: in auto-search the missing set is the set of null periods of the
\* series, and once it is empty the next step leaves the candidate loop:
\* no further candidate is fetched, OCR'd or extracted from.
C11_StopWhenFilled ==
  /\ []((pc = "hydrate" /\ hs = "auto") => missing = missingPeriods(kpis[k].series))
  /\ [][(pc = "hydrate" /\ hs = "auto" /\ missing = {})
          => /\ hs' = "cleanup"
             /\ last'.op # "cand"
             /\ DOCUMENT_CACHE' = DOCUMENT_CACHE
             /\ attempted' = attempted
             /\ AllValues(kpis') = AllValues(kpis)]_vars

\* a candidate has filled the last null period and candidates are left
C11_Witness ==
  /\ pc = "hydrate" /\ hs = "auto"
  /\ missing = {}
  /\ last.op = "cand"
  /\ ci <= Len(candidates)

\* the candidate the step just taken worked on, and what the code knew of
\* its period before any OCR
CandPeriod == firstPeriod(candidates[ci], Payload(last'.url))
CandTextValue ==
  textLayerValue(WebText(last'.url), KPI_PATTERNS(k), CandPeriod,
                 inferPeriodFromString(last'.url))
OcrInvoked == last'.op = "cand" /\ last'.ocr # "none"
OcrForPeriod == last'.ocr \in { "period-ok", "period-empty", "period-fail" }

\* C12 as stated: OCR is invoked on a candidate only if its document is a
\* PDF and pattern extraction on its text layer was attempted before and
\* gave no value.
C12_OcrOnlyAfterTextMiss ==
  [][OcrInvoked
       => /\ isPdf(last'.url)
          /\ ~OcrForPeriod
          /\ CandPeriod \in missing
          /\ CandTextValue = Null]_vars

\* C12 amended: OCR is invoked on a candidate only if OCR is enabled, the
\* document is a PDF and budget is left, and either no period could be
\* inferred from the URL, the anchor text or the text layer (OCR then runs
\* before any extraction), or extraction on the text layer for a missing
\* period was attempted and gave no value.
C12_OcrOnlyForPdfWithoutPeriodOrValue ==
  [][OcrInvoked
       => /\ isPdf(last'.url)
          /\ kpis[k]._auto.ocr
          /\ ocrRemaining > 0
          /\ IF OcrForPeriod
             THEN CandPeriod = NoPeriod
             ELSE CandPeriod \in missing /\ CandTextValue = Null]_vars

\* OCR has run on a scanned PDF whose URL, anchor text and text layer name
\* no period
C12_Witness ==
  /\ pc = "hydrate" /\ hs = "auto"
  /\ last.op = "cand" /\ last.ocr = "period-ok"
  /\ isPdf(last.url)

\* C13: when ocrWithCli has returned or thrown, the temporary directory it
\* made is gone, whichever page or rotation failed.
C13_TmpDirRemoved ==
  (ocrPc \in { "returned", "threw" }) => tmpDir # "exists"

\* tesseract failed on a later rotation, after texts were read
C13_Witness ==
  /\ ocrPc = "threw"
  /\ tmpDir = "removed"
  /\ \E p \in DOMAIN scans : Len(scans[p]) > 0

\* the tesseract binary can be found on this machine
Discoverable(machine) == machine.envPath = "file" \/ machine.which \/ machine.fallback

\* the engine function that was entered is the only one that ran
OnlyEngineRan ==
  /\ engine = "cli" => worker = "none"
  /\ engine = "js" => tmpDir = "none"
  /\ engine = "none" => worker = "none" /\ tmpDir = "none"

\* C14 as stated: a configured engine 'cli' or 'js' is the engine that
\* runs; under 'auto' the CLI engine runs if the binary is discoverable and
\* the in-process engine otherwise.
C14_ExplicitEngineRuns ==
  (engine # "none") =>
    /\ OnlyEngineRan
    /\ ocrOpts.engine = "js" => engine = "js"
    /\ ocrOpts.engine = "cli" => engine = "cli"
    /\ ocrOpts.engine \in { "", "auto" }
         => engine = IF Discoverable(ocrOpts.machine) THEN "cli" ELSE "js"

\* C14 amended: 'js' runs the in-process engine; 'cli' and 'auto' both run
\* the CLI engine if the binary is discoverable and the in-process engine
\* otherwise.
C14_EngineSelection ==
  (engine # "none") =>
    /\ OnlyEngineRan
    /\ ocrOpts.engine = "js" => engine = "js"
    /\ ocrOpts.engine \in { "", "auto", "cli" }
         => engine = IF Discoverable(ocrOpts.machine) THEN "cli" ELSE "js"

\* engine 'cli' was asked for, no binary exists, the in-process engine ran
C14_Witness ==
  /\ ocrOpts # <<>>
  /\ ocrOpts.engine = "cli"
  /\ ~Discoverable(ocrOpts.machine)
  /\ engine = "js" /\ ocrPc = "returned" /\ Len(pageTexts) > 0

\* the first of the highest-scoring texts of a page's rotations
BestScan(read, ocrKeywords) ==
  IF read = <<>> THEN NoText
  ELSE read[CHOOSE i \in DOMAIN read :
              /\ \A j \in DOMAIN read :
                    scoreOcrText(read[j].out, ocrKeywords) <= scoreOcrText(read[i].out, ocrKeywords)
              /\ \A j \in 1..(i - 1) :
                    scoreOcrText(read[j].out, ocrKeywords) < scoreOcrText(read[i].out, ocrKeywords)]

\* C15: for each page the CLI engine keeps the text of the highest-scoring
\* rotation it read; an unrotated text without keywords is passed over
\* only for a better rotation and is returned if there is none.
C15_BestRotationKept ==
  (engine = "cli") =>
    \A p \in DOMAIN pageTexts : pageTexts[p] = BestScan(scans[p], ocrOpts.ocrKeywords)

\* the pipeline in the order the claim gives: minimum score, de-duplication
\* of the survivors, sort, cut
ClaimedRanking(list, maxDocs) ==
  LET Enough(item) == scoreCandidate(item) >= MinScore
  IN  truncate(sortByScore(dedupeEntries(SelectSeq(list, Enough))), maxDocs)

\* C16: the ranked list equals discard-below-3, de-duplicate the survivors,
\* sort, truncate, applied to the filtered pool; a URL with an entry scoring
\* 3 or more is in the list unless the cut to maxDocs removed it.
C16_RankingAsClaimed ==
  (rankPc = "ranked") =>
    /\ ranked = ClaimedRanking(filteredPool, rankCfg.maxDocs)
    /\ \A i \in DOMAIN filteredPool :
         (scoreCandidate(filteredPool[i]) >= MinScore /\ Len(ranked) < rankCfg.maxDocs)
           => \E r \in DOMAIN ranked : ranked[r].url = filteredPool[i].url

\* C17: fetchSitemapUrls fetches no sitemap URL twice, stops (without a
\* further fetch) as soon as the ceiling is reached or the queue is empty,
\* never emits more than the ceiling, and returns on every finite graph.
C17_CrawlTerminates ==
  /\ [](\A i, j \in DOMAIN fetches : fetches[i] = fetches[j] => i = j)
  /\ [](Len(smOut) <= limit \/ smPc = "idle")
  /\ [](smPc = "returned" => (queue = <<>> \/ Len(smOut) >= limit))
  /\ [][(smPc = "loop" /\ (queue = <<>> \/ Len(smOut) >= limit))
          => (smPc' = "returned" /\ fetches' = fetches /\ smOut' = smOut)]_vars
  /\ <>(smPc = "returned")

\* the locations of a sitemap that was served
LocsOf(s) == IF sitemapWeb[s].failed THEN <<>> ELSE sitemapWeb[s].locs

\* a crawl over a cycle of two sitemaps has returned, each fetched once
C17_Witness ==
  /\ smPc = "returned"
  /\ fetches = << SitemapA, SitemapB >>
  /\ \E i \in DOMAIN LocsOf(SitemapA) : LocsOf(SitemapA)[i] = SitemapB
  /\ \E i \in DOMAIN LocsOf(SitemapB) : LocsOf(SitemapB)[i] = SitemapA

\* C18: no location ending in .xml is emitted as a candidate, and when the
\* crawl ends with an empty queue below the ceiling every .xml location it
\* read has been crawled.
C18_XmlNeverEmitted ==
  /\ \A i \in DOMAIN smOut : ~endsWithXml(smOut[i])
  /\ (smPc = "returned" /\ Len(smOut) < limit) =>
       \A s \in smSeen : ~sitemapWeb[s].failed =>
         \A i \in DOMAIN sitemapWeb[s].locs :
           endsWithXml(sitemapWeb[s].locs[i]) => sitemapWeb[s].locs[i] \in smSeen

\* the quarter a marker names
MarkerQuarter(marker) ==
  CASE marker.numeral \in { << "1" >>, << "i" >> } -> "1"
    [] marker.numeral \in { << "2" >>, << "i", "i" >> } -> "2"
    [] marker.numeral \in { << "3" >>, << "i", "i", "i" >> } -> "3"
    [] marker.numeral \in { << "4" >>, << "i", "v" >> } -> "4"
    [] OTHER -> ""

\* C19: a match accepted for a period has, in the window from 180
\* characters before to 260 characters after its start, the year of the
\* period and a marker that names the quarter of the period.
C19_SameQuarterInWindow ==
  (exResult.fn = "hasPeriodNearMatch" /\ exArgs.period # NoPeriod /\ exResult.accepted) =>
    /\ \E token \in exText.years :
         /\ token.year = yearOf(exArgs.period)
         /\ token.at >= windowStart(exArgs.index)
         /\ token.at + 4 <= windowEnd(exArgs.index)
    /\ \E marker \in exText.quarters :
         /\ MarkerQuarter(marker) = quarterOf(exArgs.period)
         /\ marker.at >= windowStart(exArgs.index)
         /\ marker.at < windowEnd(exArgs.index)

\* the match passes unit normalization, the bounds and the period check
PassesFilters(match) ==
  LET n == normalizeByUnit(match.raw, match.unit, exArgs.meta.unitKind)
  IN  /\ n # Null
      /\ exArgs.meta.minValue = Null \/ n[1] >= exArgs.meta.minValue[1]
      /\ exArgs.meta.maxValue = Null \/ n[1] <= exArgs.meta.maxValue[1]
      /\ exArgs.strictPeriod => hasPeriodNearMatch(exText, match.index, exArgs.period)

\* (position in the bank, position in the text) of the passing matches
PassingMatches ==
  { c \in (DOMAIN exArgs.patterns) \X (DOMAIN exText.matches) :
      /\ exText.matches[c[2]].pattern = exArgs.patterns[c[1]]
      /\ PassesFilters(exText.matches[c[2]]) }

Earlier(c, d) == c[1] < d[1] \/ (c[1] = d[1] /\ c[2] <= d[2])

\* C20: extractValueFromText returns the normalized value of the first
\* passing match, in bank order and then in text order, and null exactly
\* when no match passes.
C20_FirstPassingMatch ==
  (exResult.fn = "extractValueFromText") =>
    IF PassingMatches = {}
    THEN exResult.value = Null
    ELSE \E c \in PassingMatches :
           /\ \A d \in PassingMatches : Earlier(c, d)
           /\ exResult.value =
                normalizeByUnit(exText.matches[c[2]].raw, exText.matches[c[2]].unit,
                                exArgs.meta.unitKind)

\* bank order before text order: the second pattern of the bank matches
\* first in the text and passes, the first pattern matches later and gives
\* the value
C20_Witness ==
  /\ exResult.fn = "extractValueFromText"
  /\ Len(exArgs.patterns) = 2 /\ Len(exText.matches) = 2
  /\ exText.matches[1].pattern = exArgs.patterns[2]
  /\ exText.matches[2].pattern = exArgs.patterns[1]
  /\ exText.matches[1].index < exText.matches[2].index
  /\ PassesFilters(exText.matches[1])
  /\ PassesFilters(exText.matches[2])
  /\ exResult.value = Num(300)
  /\ exText.matches[1].raw = Num(200)

\* a call of the named function has returned
Returned(fn) == fnPc = "done" /\ fnArgs.fn = fn

DigitsOf(str) == LET IsDigit(c) == c \in Digits IN SelectSeq(str, IsDigit)

\* the number of digits after the only occurrence of c
DigitsAfter(str, c) ==
  LET at == CHOOSE i \in DOMAIN str : str[i] = c
  IN  Len(DigitsOf(SubSeq(str, at + 1, Len(str))))

\* C21: on a string of digits and separators, two or more dots alone and
\* two or more commas alone are thousands separators, a single comma alone
\* is the decimal separator, and with commas and one dot the commas are
\* thousands separators and the dot is decimal; the four strings of the
\* tests give 1234567, 1234567, 1234.56 and 1.23.
C21_SeparatorRules ==
  Returned("normalizeNumber") =>
    LET str == fnArgs.str
        dots == Count(str, ".")
        commas == Count(str, ",")
        all == digitsValue(DigitsOf(str))
    IN  /\ ((\A i \in DOMAIN str : str[i] \in Digits \cup Separators) /\ DigitsOf(str) # <<>>) =>
             /\ (dots >= 2 /\ commas = 0) => fnResult.value = Dec(1, all, 0)
             /\ (commas >= 2 /\ dots = 0) => fnResult.value = Dec(1, all, 0)
             /\ (commas = 1 /\ dots = 0) => fnResult.value = Dec(1, all, DigitsAfter(str, ","))
             /\ (commas >= 1 /\ dots = 1) => fnResult.value = Dec(1, all, DigitsAfter(str, "."))
        /\ str = << "1", ".", "2", "3", "4", ".", "5", "6", "7" >> => fnResult.value = Dec(1, 1234567, 0)
        /\ str = << "1", ",", "2", "3", "4", ",", "5", "6", "7" >> => fnResult.value = Dec(1, 1234567, 0)
        /\ str = << "1", ",", "2", "3", "4", ".", "5", "6" >> => fnResult.value = Dec(1, 123456, 2)
        /\ str = << "1", ",", "2", "3" >> => fnResult.value = Dec(1, 123, 2)

\* '1,234.56' was parsed
C21_Witness ==
  /\ Returned("normalizeNumber")
  /\ fnArgs.str = << "1", ",", "2", "3", "4", ".", "5", "6" >>
  /\ fnResult.value = [nan |-> FALSE, sign |-> 1, mant |-> 123456, scale |-> 2]

\* C23: a token without any digit gives null or a non-finite number, which
\* normalizeByUnit rejects.
C23_UnparsableGivesNoNumber ==
  (Returned("normalizeNumber") /\ DigitsOf(fnArgs.str) = <<>>) => rejectedByUnit(fnResult.value)

\* position i of the string lies in a numeric token
InToken(str, i) ==
  \E q \in 1..i : str[q] \in Digits /\ \A r \in q..i : str[r] \in Digits \cup Separators

\* the numeric tokens of a string, as (first, last) positions
TokenSpans(str) ==
  { sp \in (DOMAIN str) \X (DOMAIN str) :
      /\ sp[1] <= sp[2]
      /\ str[sp[1]] \in Digits
      /\ sp[1] = 1 \/ ~InToken(str, sp[1] - 1)
      /\ \A r \in sp[1]..sp[2] : str[r] \in Digits \cup Separators
      /\ sp[2] = Len(str) \/ str[sp[2] + 1] \notin Digits \cup Separators }

SpanDigits(str, sp) == Len(DigitsOf(SubSeq(str, sp[1], sp[2])))

\* the minimum of the claim: 6 for currency, 2 for volume, 1 otherwise
ClaimedMinimum(unitKind) ==
  CASE unitKind = "currency" -> 6 [] unitKind = "volume" -> 2 [] OTHER -> 1

\* C22: pickNumberToken returns the first numeric token with at least the
\* minimum number of digits of the unit kind, and the first token if no
\* token has that many.
C22_FirstTokenWithEnoughDigits ==
  Returned("pickNumberToken") =>
    LET str == fnArgs.raw
        spans == TokenSpans(str)
        enough == { sp \in spans : SpanDigits(str, sp) >= ClaimedMinimum(fnArgs.unitKind) }
        eligible == IF enough = {} THEN spans ELSE enough
    IN  spans # {} =>
          \E sp \in eligible :
            /\ \A other \in eligible : sp[1] <= other[1]
            /\ fnResult.value = SubSeq(str, sp[1], sp[2])

\* a later token was preferred to an earlier one with too few digits
C22_Witness ==
  /\ Returned("pickNumberToken")
  /\ fnArgs.unitKind = "currency"
  /\ fnArgs.raw = << "3", " ", "2", "0", "2", "5", " ", "8", ".", "2", "3", "5", ".", "6", "0", "6" >>
  /\ fnResult.value = << "8", ".", "2", "3", "5", ".", "6", "0", "6" >>

\* the last point of the input for a period, 0 if there is none
LastPoint(obj, p) ==
  LET at == { i \in DOMAIN obj.series : obj.series[i].period = p }
  IN  IF at = {} THEN 0 ELSE CHOOSE i \in at : \A j \in at : j <= i

\* the value a returned series carries for a JSON value, as the claim has
\* it: the input's value itself
Carried(x) == IF x.type = "null" THEN Null ELSE IF x.type = "number" THEN x.n ELSE x.str

\* the shape of a validated series and the rest of the claim; `carry`
\* tells whether the input's values are compared as they are or after
\* safeNum
ValidatedAs(carry) ==
  /\ (fnArgs.fn = "validateDataset" /\ fnPc \in { "validated", "done" }) =>
       LET obj == fnArgs.obj
           res == fnResult.first
       IN  /\ res.threw <=> \/ obj.ticker \notin { "PNJ", "MWG", "HPG", "TCB" }
                            \/ obj.agg \notin { "sum", "avg", "last" }
                            \/ \E i \in DOMAIN obj.series : obj.series[i].period \notin PeriodSet
           /\ ~res.threw =>
                /\ DOMAIN res.series = 1..Len(PERIODS_Q)
                /\ \A i \in 1..Len(PERIODS_Q) :
                     /\ res.series[i].period = PERIODS_Q[i]
                     /\ res.series[i].value =
                          IF LastPoint(obj, PERIODS_Q[i]) = 0 THEN Null
                          ELSE LET x == obj.series[LastPoint(obj, PERIODS_Q[i])].value
                               IN  IF carry = "as it is" THEN Carried(x) ELSE safeNum(x)
  /\ (Returned("validateDataset") /\ ~fnResult.first.threw) =>
       /\ ~fnResult.again.threw
       /\ fnResult.again.series = fnResult.first.series

\* C24 as stated: an accepted dataset comes back with the 20 periods in
\* order, each carrying the input's value of its last occurrence or null
\* if absent; a period outside the set throws; validating again changes
\* nothing.
C24_SeriesCarriesInput == ValidatedAs("as it is")

\* C24 amended: the value carried is safeNum of the input's value, the
\* finite number it converts to and null otherwise.
C24_SeriesCarriesSafeNum == ValidatedAs("safeNum")

\* a period given twice, the last value being a string that is no number
C24_Witness ==
  /\ Returned("validateDataset")
  /\ ~fnResult.first.threw
  /\ Len(fnArgs.obj.series) = 2
  /\ fnArgs.obj.series[1] = Point("2021Q1", JsonNumber(Dec(1, 1, 0)))
  /\ fnArgs.obj.series[2] = Point("2021Q1", JsonString(<< "x" >>))
  /\ fnResult.again.series[1].value = Null

\* the period the code holds for the candidate of the step just taken when
\* it reaches `if (!period || !missing.has(period)) continue;`
InferredPeriod ==
  IF CandPeriod # NoPeriod THEN CandPeriod
  ELSE IF last'.ocr = "period-ok" THEN inferPeriodFromText(WebOcrText(last'.url))
  ELSE NoPeriod

InAutoSearch == pc = "hydrate" /\ hs = "auto"

\* C25: auto-search assigns only to a period that was null when it began
\* (it is in the missing set, which starts as the null periods and only
\* shrinks) and is null at the assignment; the assigned value is not null
\* and the period leaves the missing set, so it is assigned at most once;
\* a candidate whose period is filled or not in the missing set leaves
\* the series and the missing set as they are.
C25_AssignOnlyMissingOnce ==
  /\ [](InAutoSearch => \A i \in DOMAIN kpis[k].series :
          kpis[k].series[i].period \in missing => ValueAt(kpis, k, i) = Null)
  /\ [][(hs' = "auto" /\ ~InAutoSearch) => missing' = missingPeriods(kpis[k].series)]_vars
  /\ [][(InAutoSearch /\ hs' = "auto")
          => /\ missing' \subseteq missing
             /\ \A j \in DOMAIN kpis : \A i \in DOMAIN kpis[j].series :
                  ValueAt(kpis', j, i) # ValueAt(kpis, j, i)
                    => /\ j = k
                       /\ ValueAt(kpis, j, i) = Null
                       /\ ValueAt(kpis', j, i) # Null
                       /\ kpis[j].series[i].period = InferredPeriod
                       /\ InferredPeriod \in missing
                       /\ InferredPeriod \notin missing'
             /\ (last'.op = "cand" /\ InferredPeriod \notin missing)
                  => AllValues(kpis') = AllValues(kpis) /\ missing' = missing]_vars

\* a candidate has filled one of several missing periods and the loop
\* goes on
C25_Witness ==
  /\ InAutoSearch
  /\ last.op = "cand"
  /\ missing # {}
  /\ \E i \in DOMAIN kpis[k].series :
       /\ ValueAt(kpis, k, i) # Null
       /\ kpis[k].series[i].period = firstPeriod(candidates[ci - 1], Payload(last.url))
       /\ kpis[k].series[i].period \notin missing

\* the step just taken fetched the candidate's document and reached the
\* extraction for a missing period
Extracting ==
  /\ InAutoSearch /\ last'.op = "cand"
  /\ ~(last'.caught /\ last'.ocr = "none")
  /\ InferredPeriod \in missing

\* the OCR call of the retry block was made
RetryOcr == last'.ocr \in { "ok", "empty", "fail" }

\* primary then fallback patterns under strict and then relaxed matching
StrictThenRelaxed(folded, meta, period) ==
  IF extractBanks(folded, meta, period, TRUE) # Null
  THEN extractBanks(folded, meta, period, TRUE)
  ELSE extractBanks(folded, meta, period, FALSE)

\* the value the series holds for a period
ValueOf(state, j, period) == ValueAt(state, j, findTarget(state[j].series, period))

\* C26 as stated: for a candidate whose period is missing, the text layer
\* is tried with both banks under strict and then under relaxed matching
\* however the period was inferred; a value found so is the one assigned,
\* and OCR is not run for it.
C26_StrictThenRelaxedAlways ==
  [][Extracting
       => LET value == StrictThenRelaxed(WebText(last'.url), KPI_PATTERNS(k), InferredPeriod)
          IN  value # Null => ValueOf(kpis', k, InferredPeriod) = value /\ ~RetryOcr]_vars

\* C26 amended: the text layer is tried with both banks under strict
\* matching, and under relaxed matching only if the period was read from
\* the URL; a value found so is assigned without OCR; if none is found, a
\* value is assigned only from an OCR text.
C26_RelaxedOnlyForUrlPeriod ==
  [][Extracting
       => LET value == IF inferPeriodFromString(last'.url) # NoPeriod
                       THEN StrictThenRelaxed(WebText(last'.url), KPI_PATTERNS(k), InferredPeriod)
                       ELSE extractBanks(WebText(last'.url), KPI_PATTERNS(k), InferredPeriod, TRUE)
          IN  IF value # Null
              THEN ValueOf(kpis', k, InferredPeriod) = value /\ ~RetryOcr
              ELSE ValueOf(kpis', k, InferredPeriod) # Null
                     => last'.ocr \in { "ok", "period-ok" }]_vars

\* a page whose period comes from its anchor text holds the figure without
\* a period marker near it: relaxed matching would find it, nothing is
\* assigned
C26_Witness ==
  /\ InAutoSearch /\ last.op = "cand" /\ ~last.caught
  /\ inferPeriodFromString(last.url) = NoPeriod
  /\ inferPeriodFromString(candidates[ci - 1].text) \in missing
  /\ extractBanks(WebText(last.url), KPI_PATTERNS(k),
                  inferPeriodFromString(candidates[ci - 1].text), FALSE) # Null
  /\ ValueOf(kpis, k, inferPeriodFromString(candidates[ci - 1].text)) = Null

\* C27: the entries discoverEntries returns hold at most one entry per
\* period, over all discover blocks of the KPI.
C27_OneEntryPerPeriod ==
  Returned("discoverEntries") =>
    \A i, j \in DOMAIN fnResult.entries :
      fnResult.entries[i].period = fnResult.entries[j].period => i = j

\* a number inside the plausibility bounds of a KPI
Plausible(v, meta) ==
  /\ v = Num(v[1]) /\ v[1] \in Int
  /\ meta.minValue # Null => v[1] >= meta.minValue[1]
  /\ meta.maxValue # Null => v[1] <= meta.maxValue[1]

\* C28: every value a series holds is null or a finite number inside the
\* bounds of its KPI, whichever path assigned it.
C28_ValuesWithinBounds ==
  \A j \in DOMAIN kpis : \A i \in DOMAIN kpis[j].series :
    ValueAt(kpis, j, i) # Null => Plausible(ValueAt(kpis, j, i), KPI_PATTERNS(j))

\* the series of one KPI holds a value of an explicit entry and a value
\* of the line-anchored fallback on the OCR text of a scan, whose line
\* also holds a number below the minimum
C28_Witness ==
  /\ InAutoSearch
  /\ last.op = "cand" /\ last.url = UrlScanQ2 /\ last.ocr = "ok"
  /\ ValueOf(kpis, k, "2021Q2") = Num(100)
  /\ ValueOf(kpis, k, "2021Q1") # Null
  /\ WebOcrText(UrlScanQ2).row[1] = NoteNumber

\* the step just taken obtained an OCR text for its candidate
OcrTextObtained == last'.op = "cand" /\ last'.ocr \in { "ok", "period-ok" }

\* C29: when an OCR text was obtained for a candidate of a missing period
\* and the text layer gave no value, the bank patterns and then the row
\* patterns are tried on the OCR text, so a value they find is assigned,
\* also when the OCR call was the period inference and used the last unit
\* of the budget.
C29_OcrTextIsUsed ==
  [][(Extracting /\ OcrTextObtained
        /\ textLayerValue(WebText(last'.url), KPI_PATTERNS(k), InferredPeriod,
                          inferPeriodFromString(last'.url)) = Null)
       => ValueOf(kpis', k, InferredPeriod)
            = ocrExtract(WebOcrText(last'.url), KPI_PATTERNS(k), InferredPeriod)]_vars

\* C30: when ocrWithJs has returned or thrown, no worker it created is
\* still alive, also when the recognition of a page failed.
C30_WorkerTerminated ==
  (ocrPc \in { "returned", "threw" }) => worker # "live"

====
